---- MODULE Spec2Model ----
(***************************************************************************)
(* Revision history of a RoleBasedGroup: listing, numbering, building and  *)
(* garbage-collecting ControllerRevisions (pkg/utils revision helpers),    *)
(* driven by one reconcile worker against the cluster object store.        *)
(***************************************************************************)
EXTENDS Integers, Sequences, FiniteSets, TLC

VARIABLES
    store,        \* ControllerRevision objects held by the cluster store
    rbg,          \* the parent RoleBasedGroup as the worker sees it
    clock,        \* the store's clock (metav1.Time): one step between two creations
    pc,           \* position of the reconcile worker
    cr,           \* record returned by the last NewRevision (Nil when none)
    revisions,    \* slice returned by the last ListRevisions call
    listSel,      \* selector handed to the last ListRevisions call
    clean,        \* observation of the last CleanExpiredRevision call
    createdLog,   \* revision numbers persisted for the parent, in creation order
    deletedNames, \* names deleted by CleanExpiredRevision calls before the last one
    partial,      \* has a CleanExpiredRevision call failed after deleting something
    creates,      \* number of revisions built so far (bounded)
    changes,      \* number of spec changes so far (bounded)
    args,         \* arguments of the helper called on its own (Nil when none)
    ret,          \* what that helper returned (Nil before the call)
    ran           \* steps the recommender command has run, each with its error

vars == <<store, rbg, clock, pc, cr, revisions, listSel, clean,
          createdLog, deletedNames, partial, creates, changes, args, ret, ran>>

\* the variables of a helper or command called on its own, and those of the worker
call == <<args, ret, ran>>
work == <<store, rbg, clock, pc, cr, revisions, listSel, clean,
          createdLog, deletedNames, partial, creates, changes>>

-----------------------------------------------------------------------------
(* Bounds of the model *)

MaxCreates == 3
MaxChanges == 1
MaxRevisions == 3

-----------------------------------------------------------------------------
(* Program constants *)

\* exceedNum := len(revisions) - 10
HistoryLimit == 10
\* if len(prefix) > 220 { prefix = prefix[:220] }
MaxPrefixLen == 220
MaxNameLen == 253

\* workloadsv1alpha1.SetNameLabelKey / RevisionKey (label keys of a revision)
SetNameLabelKey == "rolebasedgroup.workloads.x-k8s.io/name"
RevisionKey == "rolebasedgroup.workloads.x-k8s.io/hash"

\* absent values (Go nil)
Nil == [isNil |-> TRUE]
NilSelector == [isNil |-> TRUE, match |-> <<>>]

-----------------------------------------------------------------------------
(* Strings are sequences of byte values; Go compares them bytewise *)

StrLess(a, b) ==
    LET differ == {i \in 1..Len(a) : i <= Len(b) /\ a[i] # b[i]}
        first == CHOOSE i \in differ : \A j \in differ : i <= j
    IN  IF differ = {} THEN Len(a) < Len(b) ELSE a[first] < b[first]

RECURSIVE Digits(_)
Digits(n) == IF n < 10 THEN <<48 + n>> ELSE Digits(n \div 10) \o <<48 + (n % 10)>>

\* fmt "%v" of a whole number that fits 32 bits
FormatInt(n) == IF n < 0 THEN <<45>> \o Digits(0 - n) ELSE Digits(n)

\* an int64 at full width: sign and magnitude hi * 10^18 + mid * 10^9 + lo
Int64(n) ==
    [neg |-> n < 0,
     hi |-> 0,
     mid |-> (IF n < 0 THEN 0 - n ELSE n) \div 1000000000,
     lo |-> (IF n < 0 THEN 0 - n ELSE n) % 1000000000]

\* the nine digits of a limb below the first
Padded(limb) ==
    [i \in 1..9 |-> 48 + ((limb \div (10 ^ (9 - i))) % 10)]

\* fmt "%v" of an int64
FormatInt64(n) ==
    (IF n.neg THEN <<45>> ELSE <<>>)
    \o (IF n.hi > 0 THEN Digits(n.hi) \o Padded(n.mid) \o Padded(n.lo)
        ELSE IF n.mid > 0 THEN Digits(n.mid) \o Padded(n.lo)
        ELSE Digits(n.lo))

\* the one value of a singleton set: Only({e(v) : v \in {x}}) is e(x) with x
\* evaluated once
Only(S) == CHOOSE v \in S : TRUE

Reverse(s) == Only({[i \in 1..Len(t) |-> t[Len(t) + 1 - i]] : t \in {s}})

Range(s) == {s[i] : i \in 1..Len(s)}

-----------------------------------------------------------------------------
(* 32-bit FNV-1a, kept at full width as two 16-bit limbs <<hi, lo>> *)

RECURSIVE XorBits(_, _, _)
XorBits(a, b, n) ==
    IF n = 0 THEN 0
    ELSE (((a % 2) + (b % 2)) % 2) + 2 * XorBits(a \div 2, b \div 2, n - 1)

\* fnv.New32a(): offset basis 0x811C9DC5
New32a == <<33052, 40389>>

\* one byte: hash ^= b; hash *= 16777619 (0x01000193), modulo 2^32
WriteByte(h, b) ==
    LET lo == (h[2] \div 256) * 256 + XorBits(h[2] % 256, b, 8)
        t  == lo * 403
    IN  <<(h[1] * 403 + (t \div 65536) + (lo % 256) * 256) % 65536, t % 65536>>

\* hf.Write(bytes[lo..hi]): the bytes enter the sum in order, the left half first
RECURSIVE HashWriteRange(_, _, _, _)
HashWriteRange(h, bytes, lo, hi) ==
    IF lo > hi THEN h
    ELSE IF lo = hi THEN WriteByte(h, bytes[lo])
    ELSE LET mid == (lo + hi) \div 2
             left == HashWriteRange(h, bytes, lo, mid)
         IN  IF left[1] >= 0 THEN HashWriteRange(left, bytes, mid + 1, hi) ELSE left

HashWrite(h, bytes) == HashWriteRange(h, bytes, 1, Len(bytes))

\* fmt.Sprint(hf.Sum32()): decimal digits of the 32-bit sum
RECURSIVE SprintSum32(_)
SprintSum32(h) ==
    LET cur == (h[1] % 10) * 65536 + h[2]
        q   == <<h[1] \div 10, cur \div 10>>
    IN  IF q = <<0, 0>> THEN <<48 + (cur % 10)>>
        ELSE SprintSum32(q) \o <<48 + (cur % 10)>>

\* rand.SafeEncodeString: every byte c becomes alphanums[c % len(alphanums)]
Alphanums == <<98, 99, 100, 102, 103, 104, 106, 107, 108, 109, 110, 112, 113, 114,
               115, 116, 118, 119, 120, 122, 50, 52, 53, 54, 55, 56, 57>>

SafeEncodeString(s) == [i \in 1..Len(s) |-> Alphanums[(s[i] % Len(Alphanums)) + 1]]

-----------------------------------------------------------------------------
(* JSON documents: encoding/json over untyped values *)

\* the bytes of the text the model writes as TLA+ strings (keys, fixed values, names)
Ascii ==
    ("spec" :> <<115, 112, 101, 99>>) @@
    ("roles" :> <<114, 111, 108, 101, 115>>) @@
    ("$path" :> <<36, 112, 97, 116, 104>>) @@
    ("$patch" :> <<36, 112, 97, 116, 99, 104>>) @@
    ("name" :> <<110, 97, 109, 101>>) @@
    ("replicas" :> <<114, 101, 112, 108, 105, 99, 97, 115>>) @@
    ("metadata" :> <<109, 101, 116, 97, 100, 97, 116, 97>>) @@
    ("namespace" :> <<110, 97, 109, 101, 115, 112, 97, 99, 101>>) @@
    ("uid" :> <<117, 105, 100>>) @@
    ("podGroupPolicy" :> <<112, 111, 100, 71, 114, 111, 117, 112, 80, 111, 108, 105, 99, 121>>) @@
    ("kubeScheduling" :> <<107, 117, 98, 101, 83, 99, 104, 101, 100, 117, 108, 105, 110, 103>>) @@
    ("scheduleTimeoutSeconds" :> <<115, 99, 104, 101, 100, 117, 108, 101, 84, 105, 109, 101, 111, 117, 116, 83, 101, 99, 111, 110, 100, 115>>) @@
    ("status" :> <<115, 116, 97, 116, 117, 115>>) @@
    ("revisionHistoryLimit" :> <<114, 101, 118, 105, 115, 105, 111, 110, 72, 105, 115, 116, 111, 114, 121, 76, 105, 109, 105, 116>>) @@
    ("replace" :> <<114, 101, 112, 108, 97, 99, 101>>) @@
    ("default" :> <<100, 101, 102, 97, 117, 108, 116>>) @@
    ("other" :> <<111, 116, 104, 101, 114>>) @@
    ("parent-uid" :> <<112, 97, 114, 101, 110, 116, 45, 117, 105, 100>>) @@
    ("a" :> <<97>>) @@
    ("b" :> <<98>>) @@
    ("c" :> <<99>>) @@
    ("p" :> <<112>>) @@
    ("q" :> <<113>>) @@
    ("" :> <<>>)

\* the text of bytes that Ascii knows
Text(bytes) == CHOOSE k \in DOMAIN Ascii : Ascii[k] = bytes

\* interface{} values: string, float64 (whole numbers here), []interface{},
\* map[string]interface{} and nil
JString(bytes) == [t |-> "string", v |-> bytes]
JNumber(n) == [t |-> "number", v |-> n]
JArray(items) == [t |-> "array", v |-> items]
JObject(members) == [t |-> "object", v |-> members]
JNull == [t |-> "null", v |-> 0]

\* the keys of a map in the order json.Marshal writes them: sorted bytewise
SortedKeys(keys) ==
    [i \in 1..Cardinality(keys) |->
        CHOOSE k \in keys :
            Cardinality({j \in keys : StrLess(Ascii[j], Ascii[k])}) = i - 1]

RECURSIVE Join(_)
Join(parts) ==
    IF parts = <<>> THEN <<>>
    ELSE IF Len(parts) = 1 THEN parts[1]
    ELSE parts[1] \o <<44>> \o Join(Tail(parts))

\* json.Marshal
RECURSIVE Marshal(_)
Marshal(j) ==
    CASE j.t = "string" -> <<34>> \o j.v \o <<34>>
      [] j.t = "number" -> FormatInt(j.v)
      [] j.t = "null" -> <<110, 117, 108, 108>>
      [] j.t = "array" ->
            <<91>> \o Join([i \in DOMAIN j.v |-> Marshal(j.v[i])]) \o <<93>>
      [] j.t = "object" ->
            LET keys == SortedKeys(DOMAIN j.v)
            IN  <<123>>
                \o Join([i \in DOMAIN keys |->
                            <<34>> \o Ascii[keys[i]] \o <<34, 58>> \o Marshal(j.v[keys[i]])])
                \o <<125>>

IsNumberByte(c) == c = 45 \/ (c >= 48 /\ c <= 57)

RECURSIVE ParseDigits(_, _)
ParseDigits(digits, acc) ==
    IF digits = <<>> THEN acc
    ELSE ParseDigits(Tail(digits), acc * 10 + (Head(digits) - 48))

\* a string from its opening quote at i to its closing quote (no escapes)
ParseString(b, i) ==
    LET close == CHOOSE k \in (i + 1)..Len(b) :
                    b[k] = 34 /\ \A m \in (i + 1)..(k - 1) : b[m] # 34
    IN  [v |-> SubSeq(b, i + 1, close - 1), next |-> close + 1]

\* a whole number from its first byte at i
ParseNumber(b, i) ==
    LET stop == CHOOSE k \in (i + 1)..(Len(b) + 1) :
                    /\ k = Len(b) + 1 \/ ~IsNumberByte(b[k])
                    /\ \A m \in i..(k - 1) : IsNumberByte(b[m])
    IN  [v |-> IF b[i] = 45 THEN 0 - ParseDigits(SubSeq(b, i + 1, stop - 1), 0)
               ELSE ParseDigits(SubSeq(b, i, stop - 1), 0),
         next |-> stop]

\* the value that starts at byte i, and the position behind it
RECURSIVE ParseValue(_, _)
RECURSIVE ParseElements(_, _, _)
RECURSIVE ParseMembers(_, _, _)
ParseValue(b, i) ==
    CASE b[i] = 34 ->
            LET str == ParseString(b, i) IN [v |-> JString(str.v), next |-> str.next]
      [] b[i] = 91 ->
            IF b[i + 1] = 93 THEN [v |-> JArray(<<>>), next |-> i + 2]
            ELSE ParseElements(b, i + 1, <<>>)
      [] b[i] = 123 ->
            IF b[i + 1] = 125 THEN [v |-> JObject(<<>>), next |-> i + 2]
            ELSE ParseMembers(b, i + 1, <<>>)
      [] b[i] = 110 -> [v |-> JNull, next |-> i + 4]
      [] OTHER ->
            LET num == ParseNumber(b, i) IN [v |-> JNumber(num.v), next |-> num.next]

ParseElements(b, i, acc) ==
    LET e == ParseValue(b, i)
    IN  IF b[e.next] = 44 THEN ParseElements(b, e.next + 1, Append(acc, e.v))
        ELSE [v |-> JArray(Append(acc, e.v)), next |-> e.next + 1]

ParseMembers(b, i, acc) ==
    LET key == ParseString(b, i)
        e == ParseValue(b, key.next + 1)
        members == (Text(key.v) :> e.v) @@ acc
    IN  IF b[e.next] = 44 THEN ParseMembers(b, e.next + 1, members)
        ELSE [v |-> JObject(members), next |-> e.next + 1]

\* json.Unmarshal into interface{}
Unmarshal(b) == ParseValue(b, 1).v

-----------------------------------------------------------------------------
(* The parent and its patch *)

ParentName == <<112>>
ParentNamespace == "default"
ParentUID == "parent-uid"

\* role lists the operator may declare (name, replicas)
RoleSets ==
    << <<[name |-> <<97>>, replicas |-> 1]>>,
       <<[name |-> <<97>>, replicas |-> 2], [name |-> <<98>>, replicas |-> 1]>> >>

\* RevisionHistoryLimit *int32 left nil
Unspecified == [set |-> FALSE, value |-> 0]

\* PodGroupPolicy with KubeScheduling.ScheduleTimeoutSeconds
GangPolicy(seconds) == [scheduleTimeoutSeconds |-> seconds]

Parent(limit) ==
    [name |-> ParentName, namespace |-> ParentNamespace, uid |-> ParentUID,
     roles |-> RoleSets[1], podGroupPolicy |-> GangPolicy(300),
     revisionHistoryLimit |-> limit]

\* the JSON of a RoleBasedGroup as its struct tags give it: metadata, spec with
\* roles and the optional (omitempty) podGroupPolicy and revisionHistoryLimit, status
EncodeRole(r) == JObject(("name" :> JString(r.name)) @@ ("replicas" :> JNumber(r.replicas)))

Encode(p) ==
    JObject(
        ("metadata" :> JObject(("name" :> JString(p.name))
                               @@ ("namespace" :> JString(Ascii[p.namespace]))
                               @@ ("uid" :> JString(Ascii[p.uid]))))
        @@ ("spec" :> JObject(
                ("roles" :> JArray([i \in DOMAIN p.roles |-> EncodeRole(p.roles[i])]))
                @@ (IF p.podGroupPolicy = Nil THEN <<>>
                    ELSE "podGroupPolicy" :> JObject("kubeScheduling" :> JObject(
                            "scheduleTimeoutSeconds" :>
                                JNumber(p.podGroupPolicy.scheduleTimeoutSeconds))))
                @@ (IF p.revisionHistoryLimit.set
                    THEN "revisionHistoryLimit" :> JNumber(p.revisionHistoryLimit.value)
                    ELSE <<>>)))
        @@ ("status" :> JObject(<<>>)))

\* json.Unmarshal into a RoleBasedGroup: known fields are read, others dropped
DecodeRole(j) ==
    [name |-> IF "name" \in DOMAIN j.v THEN j.v["name"].v ELSE <<>>,
     replicas |-> IF "replicas" \in DOMAIN j.v THEN j.v["replicas"].v ELSE 0]

Decode(j) ==
    LET meta == j.v["metadata"].v
        spec == j.v["spec"].v
    IN  [name |-> meta["name"].v,
         namespace |-> Text(meta["namespace"].v),
         uid |-> Text(meta["uid"].v),
         roles |-> IF "roles" \in DOMAIN spec
                   THEN [i \in DOMAIN spec["roles"].v |-> DecodeRole(spec["roles"].v[i])]
                   ELSE <<>>,
         podGroupPolicy |->
            IF "podGroupPolicy" \in DOMAIN spec
            THEN GangPolicy(spec["podGroupPolicy"].v["kubeScheduling"]
                                .v["scheduleTimeoutSeconds"].v)
            ELSE Nil,
         revisionHistoryLimit |->
            IF "revisionHistoryLimit" \in DOMAIN spec
            THEN [set |-> TRUE, value |-> spec["revisionHistoryLimit"].v]
            ELSE Unspecified]

\* a patch that carries the directive under the key strategicpatch reads
getRBGPatchDirective(p) ==
    LET raw == Unmarshal(Marshal(Encode(p)))
        roles == raw.v["spec"].v["roles"]
        specCopy == ("roles" :> roles) @@ ("$patch" :> JString(Ascii["replace"]))
    IN  Marshal(JObject("spec" :> JObject(specCopy)))

\* a patch that copies the whole spec
getRBGPatchWholeSpec(p) ==
    LET raw == Unmarshal(Marshal(Encode(p)))
        specCopy == raw.v["spec"].v @@ ("$path" :> JString(Ascii["replace"]))
    IN  Marshal(JObject("spec" :> JObject(specCopy)))

\* a patch that carries the first role alone
getRBGPatchFirstRole(p) ==
    LET raw == Unmarshal(Marshal(Encode(p)))
        roles == JArray(SubSeq(raw.v["spec"].v["roles"].v, 1, 1))
        specCopy == ("roles" :> roles) @@ ("$path" :> JString(Ascii["replace"]))
    IN  Marshal(JObject("spec" :> JObject(specCopy)))

\* objCopy = {"spec": {"roles": roles, "$path": "replace"}}, marshalled
getRBGPatch(p) ==
    LET raw == Unmarshal(Marshal(Encode(p)))
        roles == raw.v["spec"].v["roles"]
        specCopy == ("roles" :> roles) @@ ("$path" :> JString(Ascii["replace"]))
    IN  Marshal(JObject("spec" :> JObject(specCopy)))

\* fnv.New32a over the bytes, written only when there are any, printed and encoded
Sum32aEncoded(raw) ==
    SafeEncodeString(SprintSum32(IF Len(raw) > 0 THEN HashWrite(New32a, raw) ELSE New32a))

\* hashRevision of a record that carries raw patch bytes and no decoded object
hashRevision(raw) == Sum32aEncoded(raw)

\* what is wrong with the i-th role of a patch ("" when nothing is)
\* a check that lets an empty name pass
RoleErrorAllowsEmpty(r) ==
    IF r.t # "object" THEN "invalid role structure"
    ELSE IF "name" \notin DOMAIN r.v THEN "role missing name field"
    ELSE IF r.v["name"].t # "string" THEN "role missing name field"
    ELSE ""

RoleError(r) ==
    IF r.t # "object" THEN "invalid role structure"
    ELSE IF "name" \notin DOMAIN r.v THEN "role missing name field"
    ELSE IF r.v["name"].t # "string" \/ r.v["name"].v = <<>>
         THEN "role missing name field"
    ELSE ""

\* a map that gives every role the hash of the whole roles list
getRoleHashMapOfList(raw) ==
    IF Len(raw) = 0 THEN [result |-> <<>>, isNil |-> FALSE, err |-> "nil"]
    ELSE LET list == Unmarshal(raw).v["spec"].v["roles"]
         IN  [result |-> [n \in {list.v[i].v["name"].v : i \in DOMAIN list.v} |->
                              Sum32aEncoded(Marshal(list))],
              isNil |-> FALSE, err |-> "nil"]

\* the result is [result, err]: role name -> hash of the role's own JSON
getRoleHashMap(raw) ==
    IF Len(raw) = 0 THEN [result |-> <<>>, isNil |-> FALSE, err |-> "nil"]
    ELSE LET obj == Unmarshal(raw)
             Failed(msg) == [result |-> <<>>, isNil |-> TRUE, err |-> msg]
         IN  IF obj.t \notin {"object", "null"}
             THEN Failed("failed to unmarshal ControllerRevision data")
             ELSE IF \/ obj.t = "null"
                     \/ "spec" \notin DOMAIN obj.v
                     \/ obj.v["spec"].t # "object"
                  THEN Failed("spec not found or wrong type")
             ELSE IF \/ "roles" \notin DOMAIN obj.v["spec"].v
                     \/ obj.v["spec"].v["roles"].t # "array"
                  THEN Failed("roles not found or wrong type")
             ELSE LET roles == obj.v["spec"].v["roles"].v
                      bad == {i \in DOMAIN roles : RoleError(roles[i]) # ""}
                      names == {roles[i].v["name"].v : i \in DOMAIN roles}
                      Last(n) == CHOOSE i \in DOMAIN roles :
                                    /\ roles[i].v["name"].v = n
                                    /\ \A k \in DOMAIN roles :
                                            roles[k].v["name"].v = n => k <= i
                  IN  IF bad # {}
                      THEN Failed(RoleError(roles[CHOOSE i \in bad :
                                                    \A k \in bad : i <= k]))
                      ELSE [result |-> [n \in names |->
                                            Sum32aEncoded(Marshal(roles[Last(n)]))],
                            isNil |-> FALSE, err |-> "nil"]

\* role lists of one or two entries drawn from a with one replica, a with two
\* and b, in either order and with repeats
Entries ==
    << [name |-> <<97>>, replicas |-> 1],
       [name |-> <<97>>, replicas |-> 2],
       [name |-> <<98>>, replicas |-> 1] >>

Arranged ==
    {<<Entries[i]>> : i \in DOMAIN Entries}
    \cup {<<Entries[i], Entries[j]>> : i \in DOMAIN Entries, j \in DOMAIN Entries}

\* the parents of those role lists, with and without a group policy
TwinParents ==
    {[Parent(Unspecified) EXCEPT !.roles = roles, !.podGroupPolicy = policy] :
        roles \in Arranged, policy \in {Nil, GangPolicy(300)}}

\* the parents the reconcile worker builds revisions of, and the twins
KnownParents ==
    {[Parent(limit) EXCEPT !.roles = RoleSets[i]] :
        limit \in {Unspecified, [set |-> TRUE, value |-> 9]}, i \in DOMAIN RoleSets}
    \cup TwinParents

\* rawPatch, rgbHash and roleHashMap of NewRevision
Contents(parent) ==
    Only({[rawPatch |-> rawPatch, rgbHash |-> hashRevision(rawPatch),
           roleHashMap |-> getRoleHashMap(rawPatch)]
          : rawPatch \in {getRBGPatch(parent)}})

\* those of the known parents, computed once
KnownContents == [parent \in KnownParents |-> Contents(parent)]

-----------------------------------------------------------------------------
(* Restoring a parent from a revision: strategicpatch over JSON maps *)

\* a roles field tagged patchStrategy:"merge" patchMergeKey:"name"
LookupPatchMetadataMerge(key) == IF key = "roles" THEN "merge" ELSE ""

\* the patch strategy of a list field: RoleBasedGroupSpec tags Roles `json:"roles"`
\* and nothing more, so none
LookupPatchMetadataForSlice(key) == ""

\* mergeMap: a "$patch" directive replaces (or deletes) the map; otherwise a null
\* deletes its key, a key the original lacks or holds with another type takes the
\* patch value, maps merge key by key and lists by the strategy of their field
RECURSIVE mergeMap(_, _)
RECURSIVE mergeSliceHandler(_, _, _)
mergeMap(original, patch) ==
    IF "$patch" \in DOMAIN patch
    THEN IF patch["$patch"] = JString(Ascii["replace"])
         THEN [k \in DOMAIN patch \ {"$patch"} |-> patch[k]]
         ELSE <<>>
    ELSE [k \in (DOMAIN original \cup DOMAIN patch)
                \ {n \in DOMAIN patch : patch[n].t = "null"} |->
            IF k \notin DOMAIN patch THEN original[k]
            ELSE IF k \notin DOMAIN original THEN patch[k]
            ELSE IF original[k].t # patch[k].t THEN patch[k]
            ELSE IF patch[k].t = "object"
                 THEN JObject(mergeMap(original[k].v, patch[k].v))
            ELSE IF patch[k].t = "array"
                 THEN JArray(mergeSliceHandler(original[k].v, patch[k].v,
                                               LookupPatchMetadataForSlice(k)))
            ELSE patch[k]]

\* a list with the merge strategy is merged on the key "name": an original item
\* takes the patch of its name, the patch items of new names follow; any other
\* list is the patch's
mergeSliceHandler(original, patch, fieldPatchStrategy) ==
    IF fieldPatchStrategy = "merge"
    THEN LET Named(items, n) == {i \in DOMAIN items : items[i].v["name"] = n}
             merged == [i \in DOMAIN original |->
                          LET same == Named(patch, original[i].v["name"])
                          IN  IF same = {} THEN original[i]
                              ELSE JObject(mergeMap(original[i].v,
                                                    patch[CHOOSE j \in same : TRUE].v))]
         IN  merged \o SelectSeq(patch, LAMBDA x : Named(original, x.v["name"]) = {})
    ELSE patch

\* strategicpatch.StrategicMergePatch(original, patch, dataStruct); no patch bytes
\* stand for the empty patch {}
StrategicMergePatch(original, patch) ==
    LET originalMap == Unmarshal(original)
        patchMap == IF Len(patch) = 0 THEN JObject(<<>>) ELSE Unmarshal(patch)
    IN  Marshal(JObject(mergeMap(originalMap.v, patchMap.v)))

\* the result is [restored, err]; the live parent is read, never written
ApplyRevision(live, revision) ==
    LET str == Marshal(Encode(live))
        patched == StrategicMergePatch(str, revision.raw)
    IN  [restored |-> Decode(Unmarshal(patched)), err |-> "nil"]

\* the text spew prints for a decoded object ("%#v"): here the roles, a nil slice
\* printed apart from an empty one
Spew(objectToWrite) ==
    IF objectToWrite.roles.isNil THEN Marshal(JNull)
    ELSE Marshal(JArray([i \in DOMAIN objectToWrite.roles.items |->
                            EncodeRole(objectToWrite.roles.items[i])]))

\* deepHashObject: hasher.Reset(), then the printed object is written
deepHashObject(hasher, objectToWrite) == HashWrite(New32a, Spew(objectToWrite))

\* hashRevision of a record with Data.Raw and Data.Object
hashRevisionOf(revision) ==
    LET hf == New32a
        written == IF Len(revision.data.raw.bytes) > 0
                   THEN HashWrite(hf, revision.data.raw.bytes)
                   ELSE hf
        sum == IF revision.data.object # Nil
               THEN deepHashObject(written, revision.data.object)
               ELSE written
    IN  SafeEncodeString(SprintSum32(sum))

\* bytes.Equal: a nil slice and an empty one hold the same bytes
BytesEqual(a, b) == a.bytes = b.bytes

\* apiequality.Semantic.DeepEqual on Data.Object: a nil object equals a nil object
\* alone; in objects an empty slice is the same as a nil slice
SemanticDeepEqual(a, b) ==
    IF a = Nil \/ b = Nil THEN a = b
    ELSE a.roles.items = b.roles.items

\* a comparison of the raw bytes alone
EqualRevisionRawOnly(lhs, rhs) ==
    IF lhs = Nil \/ rhs = Nil THEN lhs = rhs
    ELSE BytesEqual(lhs.data.raw, rhs.data.raw)

EqualRevision(lhs, rhs) ==
    IF lhs = Nil \/ rhs = Nil THEN lhs = rhs
    ELSE /\ BytesEqual(lhs.data.raw, rhs.data.raw)
         /\ SemanticDeepEqual(lhs.data.object, rhs.data.object)

\* a name built from the whole prefix
revisionNameUntruncated(prefix, hash, revisionNumber) ==
    prefix \o <<45>> \o hash \o <<45>> \o FormatInt64(revisionNumber)

revisionName(prefix, hash, revisionNumber) ==
    LET p == IF Len(prefix) > MaxPrefixLen THEN SubSeq(prefix, 1, MaxPrefixLen) ELSE prefix
    IN  p \o <<45>> \o hash \o <<45>> \o FormatInt64(revisionNumber)

-----------------------------------------------------------------------------
(* The cluster store: ControllerRevision objects keyed by namespace and name *)

\* a lookup that takes the first owner reference, controller or not
GetControllerOfNoCopyFirst(refs) ==
    IF refs = <<>> THEN Nil ELSE Head(refs)

\* metav1.GetControllerOfNoCopy: the first owner reference flagged controller
RECURSIVE GetControllerOfNoCopy(_)
GetControllerOfNoCopy(refs) ==
    IF refs = <<>> THEN Nil
    ELSE IF Head(refs).controller THEN Head(refs)
    ELSE GetControllerOfNoCopy(Tail(refs))

\* a nil selector read as labels.Everything()
SelectorMatchesNilEverything(selector, labels) ==
    \A k \in DOMAIN selector.match :
        k \in DOMAIN labels /\ labels[k] = selector.match[k]

\* labels.Selector.Matches; client.MatchingLabelsSelector turns a nil selector
\* into labels.Nothing(), an empty one is labels.Everything()
SelectorMatches(selector, labels) ==
    IF selector.isNil THEN FALSE
    ELSE \A k \in DOMAIN selector.match :
            k \in DOMAIN labels /\ labels[k] = selector.match[k]

\* the items of a list call come back in key order (or, the order not being
\* part of the contract, in the opposite one); S holds one namespace's objects
InNameOrder(S) ==
    LET Place(T) == [x \in T |-> Cardinality({y \in T : StrLess(y.name, x.name)}) + 1]
    IN  Only({[i \in 1..Cardinality(DOMAIN place) |->
                CHOOSE x \in DOMAIN place : place[x] = i]
              : place \in {Place(S)}})

ListOrders == {"asc", "desc"}

\* k8sClient.List(ctx, list, InNamespace(ns), MatchingLabelsSelector{selector})
List(objects, namespace, selector, order) ==
    Only({IF order = "asc" THEN items ELSE Reverse(items) :
          items \in {InNameOrder({o \in objects :
                        o.namespace = namespace /\ SelectorMatches(selector, o.labels)})}})

IsOwnedOrOrphan(h, parent) ==
    LET ref == GetControllerOfNoCopy(h.ownerRefs)
    IN  IF ref = Nil THEN TRUE ELSE ref.uid = parent.uid

ListRevisions(objects, parent, selector, order, listFails) ==
    IF listFails THEN [owned |-> <<>>, err |-> "StoreError"]
    ELSE LET history == List(objects, parent.namespace, selector, order)
         IN  [owned |-> SelectSeq(history, LAMBDA h : IsOwnedOrOrphan(h, parent)),
              err |-> "nil"]

\* a scan that replaces the running maximum only by a greater number
RECURSIVE HighestFromStrict(_, _, _)
HighestFromStrict(revs, max, maxRevision) ==
    IF revs = <<>> THEN maxRevision
    ELSE IF max < Head(revs).revision
         THEN HighestFromStrict(Tail(revs), Head(revs).revision, Head(revs))
         ELSE HighestFromStrict(Tail(revs), max, maxRevision)

\* the loop of GetHighestRevision from its running max and maxRevision
RECURSIVE HighestFrom(_, _, _)
HighestFrom(revs, max, maxRevision) ==
    IF revs = <<>> THEN maxRevision
    ELSE IF max <= Head(revs).revision
         THEN HighestFrom(Tail(revs), Head(revs).revision, Head(revs))
         ELSE HighestFrom(Tail(revs), max, maxRevision)

\* a scan that trusts the slice to be sorted and takes its last element
GetHighestRevisionLast(revs) ==
    IF Len(revs) <= 0 THEN Nil ELSE revs[Len(revs)]

GetHighestRevision(revs) ==
    IF Len(revs) <= 0 THEN Nil ELSE HighestFrom(revs, 0, Nil)

ParentSelector(parent) == [isNil |-> FALSE, match |-> (SetNameLabelKey :> parent.name)]

\* the label key of a role's hash: fmt.Sprintf(RoleRevisionKeyFmt, role)
RoleRevisionKeyFmt(role) ==
    "rolebasedgroup.workloads.x-k8s.io/role-revision-hash-" \o Text(role)

\* a revision numbered by the count of the listed records
NewRevisionCounting(client, parent, listOrder, listErr) ==
    LET listed == ListRevisions(client, parent, ParentSelector(parent), listOrder, listErr)
        revision == Len(listed.owned) + 1
        made == Contents(parent)
    IN  IF listed.err # "nil" THEN [cr |-> Nil, err |-> listed.err]
        ELSE [cr |-> [name |-> revisionName(parent.name, made.rgbHash, Int64(revision)),
                      namespace |-> parent.namespace,
                      labels |-> [role \in {RoleRevisionKeyFmt(n) :
                                                n \in DOMAIN made.roleHashMap.result} |->
                                    made.roleHashMap.result[
                                        CHOOSE n \in DOMAIN made.roleHashMap.result :
                                            RoleRevisionKeyFmt(n) = role]]
                                 @@ (SetNameLabelKey :> parent.name)
                                 @@ (RevisionKey :> made.rgbHash),
                      ownerRefs |-> <<[uid |-> parent.uid, controller |-> TRUE]>>,
                      revision |-> revision,
                      creationTimestamp |-> 0,
                      raw |-> made.rawPatch],
              err |-> "nil"]

\* a record labelled with the parent's name and the whole hash only
NewRevisionTwoLabels(client, parent, listOrder, listErr) ==
    LET listed == ListRevisions(client, parent, ParentSelector(parent), listOrder, listErr)
        highestRevision == GetHighestRevision(listed.owned)
        revision == IF highestRevision # Nil THEN highestRevision.revision + 1 ELSE 1
        made == Contents(parent)
    IN  IF listed.err # "nil" THEN [cr |-> Nil, err |-> listed.err]
        ELSE [cr |-> [name |-> revisionName(parent.name, made.rgbHash, Int64(revision)),
                      namespace |-> parent.namespace,
                      labels |-> (SetNameLabelKey :> parent.name)
                                 @@ (RevisionKey :> made.rgbHash),
                      ownerRefs |-> <<[uid |-> parent.uid, controller |-> TRUE]>>,
                      revision |-> revision,
                      creationTimestamp |-> 0,
                      raw |-> made.rawPatch],
              err |-> "nil"]

\* the result is [cr, err]; cr is Nil when the list call or the role hashing failed
NewRevision(client, parent, listOrder, listErr) ==
    LET listed == ListRevisions(client, parent, ParentSelector(parent), listOrder, listErr)
        highestRevision == GetHighestRevision(listed.owned)
        revision == IF highestRevision # Nil THEN highestRevision.revision + 1 ELSE 1
        made == IF parent \in DOMAIN KnownContents THEN KnownContents[parent]
                ELSE Contents(parent)
        roleHashMap == made.roleHashMap.result
    IN  IF listed.err # "nil" THEN [cr |-> Nil, err |-> listed.err]
        ELSE IF made.roleHashMap.err # "nil" THEN [cr |-> Nil, err |-> made.roleHashMap.err]
        ELSE [cr |-> [name |-> revisionName(parent.name, made.rgbHash, Int64(revision)),
                      namespace |-> parent.namespace,
                      labels |-> [role \in {RoleRevisionKeyFmt(n) :
                                                n \in DOMAIN roleHashMap} |->
                                    roleHashMap[CHOOSE n \in DOMAIN roleHashMap :
                                                    RoleRevisionKeyFmt(n) = role]]
                                 @@ (SetNameLabelKey :> parent.name)
                                 @@ (RevisionKey :> made.rgbHash),
                      ownerRefs |-> <<[uid |-> parent.uid, controller |-> TRUE]>>,
                      revision |-> revision,
                      creationTimestamp |-> 0,
                      raw |-> made.rawPatch],
              err |-> "nil"]

\* client.Create: the store stamps the creation time; a taken name is refused
HasKey(objects, o) == \E x \in objects : x.namespace = o.namespace /\ x.name = o.name

Create(objects, o, now, createFails) ==
    IF createFails THEN [store |-> objects, err |-> "StoreError"]
    ELSE IF HasKey(objects, o) THEN [store |-> objects, err |-> "AlreadyExists"]
    ELSE [store |-> objects \cup {[o EXCEPT !.creationTimestamp = now]}, err |-> "nil"]

\* client.Delete: removes the object with the record's key; a missing object is an error
Delete(objects, o, deleteFails) ==
    IF ~HasKey(objects, o) THEN [store |-> objects, err |-> "NotFound"]
    ELSE IF deleteFails THEN [store |-> objects, err |-> "StoreError"]
    ELSE [store |-> {x \in objects : ~(x.namespace = o.namespace /\ x.name = o.name)},
          err |-> "nil"]

-----------------------------------------------------------------------------
(* Garbage collection of the history *)

\* a less function that skips the creation time
RevisionLessNoTime(a, b) ==
    IF a.revision = b.revision THEN StrLess(a.name, b.name)
    ELSE a.revision < b.revision

\* the less function handed to sort.SliceStable
RevisionLess(a, b) ==
    IF a.revision = b.revision
    THEN IF a.creationTimestamp = b.creationTimestamp
         THEN StrLess(a.name, b.name)
         ELSE a.creationTimestamp < b.creationTimestamp
    ELSE a.revision < b.revision

\* sort.SliceStable(revisions, less), in place: an element moves behind those
\* that are less than it and behind the equal ones that stood before it
SliceStable(revs) ==
    LET Before(s, j, i) ==
            \/ RevisionLess(s[j], s[i])
            \/ ~RevisionLess(s[i], s[j]) /\ j < i
        Place(s) == [i \in DOMAIN s |->
                        Cardinality({j \in DOMAIN s : Before(s, j, i)}) + 1]
    IN  Only({Only({[k \in DOMAIN s |-> s[CHOOSE i \in DOMAIN s : place[i] = k]]
                    : place \in {Place(s)}})
              : s \in {revs}})

\* the delete loop over revisions[0 .. exceedNum-1]; failAt is the position (from 1)
\* at which the store refuses the delete, 0 when it refuses none
RECURSIVE DeleteLoop(_, _, _, _, _, _)
DeleteLoop(objects, revs, i, exceedNum, failAt, calls) ==
    IF i > exceedNum THEN [store |-> objects, calls |-> calls, err |-> "nil"]
    ELSE Only({IF d.err # "nil"
               THEN [store |-> d.store, calls |-> Append(calls, revs[i]), err |-> d.err]
               ELSE DeleteLoop(d.store, revs, i + 1, exceedNum, failAt,
                               Append(calls, revs[i]))
               : d \in {Delete(objects, revs[i], failAt = i)}})

\* a surplus counted one too high
CleanExpiredRevisionOneMore(objects, parent, revs, failAt) ==
    LET exceedNum == Len(revs) - HistoryLimit + 1
    IN  IF exceedNum <= 0
        THEN [store |-> objects, calls |-> <<>>, result |-> revs, err |-> "nil"]
        ELSE LET sorted == SliceStable(revs)
                 loop == DeleteLoop(objects, sorted, 1, exceedNum, failAt, <<>>)
             IN  IF loop.err # "nil"
                 THEN [store |-> loop.store, calls |-> loop.calls,
                       result |-> sorted, err |-> loop.err]
                 ELSE [store |-> loop.store, calls |-> loop.calls,
                       result |-> SubSeq(sorted, exceedNum + 1, Len(sorted)),
                       err |-> "nil"]

\* an early return that misses the list of exactly ten
CleanExpiredRevisionSortsAtLimit(objects, parent, revs, failAt) ==
    LET exceedNum == Len(revs) - HistoryLimit
    IN  IF exceedNum < 0
        THEN [store |-> objects, calls |-> <<>>, result |-> revs, err |-> "nil"]
        ELSE LET sorted == SliceStable(revs)
                 loop == DeleteLoop(objects, sorted, 1, exceedNum, failAt, <<>>)
             IN  IF loop.err # "nil"
                 THEN [store |-> loop.store, calls |-> loop.calls,
                       result |-> sorted, err |-> loop.err]
                 ELSE [store |-> loop.store, calls |-> loop.calls,
                       result |-> SubSeq(sorted, exceedNum + 1, Len(sorted)),
                       err |-> "nil"]

\* a failure that returns only the entries from the failed one on
CleanExpiredRevisionRest(objects, parent, revs, failAt) ==
    LET exceedNum == Len(revs) - HistoryLimit
    IN  IF exceedNum <= 0
        THEN [store |-> objects, calls |-> <<>>, result |-> revs, err |-> "nil"]
        ELSE LET sorted == SliceStable(revs)
                 loop == DeleteLoop(objects, sorted, 1, exceedNum, failAt, <<>>)
             IN  IF loop.err # "nil"
                 THEN [store |-> loop.store, calls |-> loop.calls,
                       result |-> SubSeq(sorted, Len(loop.calls), Len(sorted)), err |-> loop.err]
                 ELSE [store |-> loop.store, calls |-> loop.calls,
                       result |-> SubSeq(sorted, exceedNum + 1, Len(sorted)),
                       err |-> "nil"]

\* a sort in descending order
CleanExpiredRevisionNewestFirst(objects, parent, revs, failAt) ==
    LET exceedNum == Len(revs) - HistoryLimit
    IN  IF exceedNum <= 0
        THEN [store |-> objects, calls |-> <<>>, result |-> revs, err |-> "nil"]
        ELSE LET sorted == Reverse(SliceStable(revs))
                 loop == DeleteLoop(objects, sorted, 1, exceedNum, failAt, <<>>)
             IN  IF loop.err # "nil"
                 THEN [store |-> loop.store, calls |-> loop.calls,
                       result |-> sorted, err |-> loop.err]
                 ELSE [store |-> loop.store, calls |-> loop.calls,
                       result |-> SubSeq(sorted, exceedNum + 1, Len(sorted)),
                       err |-> "nil"]

\* a prune that shortens the slice and deletes nothing
CleanExpiredRevisionKeepsAll(objects, parent, revs, failAt) ==
    LET exceedNum == Len(revs) - HistoryLimit
    IN  IF exceedNum <= 0
        THEN [store |-> objects, calls |-> <<>>, result |-> revs, err |-> "nil"]
        ELSE LET sorted == SliceStable(revs)
             IN  [store |-> objects, calls |-> <<>>,
                  result |-> SubSeq(sorted, exceedNum + 1, Len(sorted)), err |-> "nil"]

\* the result is [store, calls, result, err]: the store afterwards, the records
\* handed to client.Delete, the returned slice and the returned error
CleanExpiredRevision(objects, parent, revs, failAt) ==
    LET exceedNum == Len(revs) - HistoryLimit
        Outcome(sorted, loop) ==
            IF loop.err # "nil"
            THEN [store |-> loop.store, calls |-> loop.calls,
                  result |-> sorted, err |-> loop.err]
            ELSE [store |-> loop.store, calls |-> loop.calls,
                  result |-> SubSeq(sorted, exceedNum + 1, Len(sorted)),
                  err |-> "nil"]
    IN  IF exceedNum <= 0
        THEN [store |-> objects, calls |-> <<>>, result |-> revs, err |-> "nil"]
        ELSE Only({Only({Outcome(sorted, loop) :
                         loop \in {DeleteLoop(objects, sorted, 1, exceedNum, failAt, <<>>)}})
                   : sorted \in {SliceStable(revs)}})

\* RevisionHistoryLimit *int32: "If unspecified, defaults to 10"
DocumentedLimit(parent) ==
    IF parent.revisionHistoryLimit.set THEN parent.revisionHistoryLimit.value ELSE 10

-----------------------------------------------------------------------------
(* The reconcile worker of one parent *)

NoList == [owned |-> <<>>, err |-> "none"]
NoCall == [called |-> FALSE, retry |-> FALSE, input |-> <<>>, calls |-> <<>>,
           result |-> <<>>, err |-> "nil", deletedBefore |-> {}]

External(name, namespace, label, refs, revision, time) ==
    [name |-> name, namespace |-> namespace, labels |-> (SetNameLabelKey :> label),
     ownerRefs |-> refs, revision |-> revision, creationTimestamp |-> time, raw |-> <<>>]

OtherRef(controller) == [uid |-> "other-uid", controller |-> controller]

\* records the parent does not own but lists: no controller owner, parent's label
\* (name, revision, creation time; the first carries a non-controller owner)
Orphans ==
    { External(<<97>>, ParentNamespace, ParentName, <<OtherRef(FALSE)>>, 1, 1),
      External(<<98>>, ParentNamespace, ParentName, <<>>, 1, 1),
      External(<<99>>, ParentNamespace, ParentName, <<>>, 1, 0),
      External(<<100>>, ParentNamespace, ParentName, <<>>, 0, 1),
      External(<<101>>, ParentNamespace, ParentName, <<>>, 2, 1),
      External(<<104>>, ParentNamespace, ParentName, <<>>, 2, 0),
      External(<<105>>, ParentNamespace, ParentName, <<>>, 3, 1),
      External(<<106>>, ParentNamespace, ParentName, <<>>, 4, 1),
      External(<<107>>, ParentNamespace, ParentName, <<>>, 4, 1) }

\* records the parent never lists: another controller's, another namespace's
Foreign ==
    { External(<<102>>, ParentNamespace, ParentName, <<OtherRef(TRUE)>>, 7, 0),
      External(<<103>>, "other", ParentName,
               <<[uid |-> ParentUID, controller |-> TRUE]>>, 8, 0) }

Idle ==
    /\ clock = 2
    /\ pc = "idle"
    /\ cr = Nil
    /\ revisions = NoList
    /\ listSel = NilSelector
    /\ clean = NoCall
    /\ createdLog = <<>>
    /\ deletedNames = {}
    /\ partial = FALSE
    /\ creates = 0
    /\ changes = 0
    /\ ran = <<>>

\* no helper is called on its own
NoCallee == args = Nil /\ ret = Nil

Init ==
    /\ store \in {Foreign, Foreign \cup Orphans}
    /\ rbg = Parent(Unspecified)
    /\ Idle
    /\ NoCallee

\* the operator edits the parent's roles
SpecChange ==
    /\ pc = "idle"
    /\ changes < MaxChanges
    /\ \E i \in 1..Len(RoleSets) :
        /\ RoleSets[i] # rbg.roles
        /\ rbg' = [rbg EXCEPT !.roles = RoleSets[i]]
    /\ changes' = changes + 1
    /\ UNCHANGED <<store, clock, pc, cr, revisions, listSel, clean, createdLog,
                   deletedNames, partial, creates>>
    /\ UNCHANGED call

NewRevisionStep ==
    /\ pc \in {"idle", "cleaned"}
    /\ creates < MaxCreates
    /\ \E order \in ListOrders, listFails \in BOOLEAN :
        \E r \in {NewRevision(store, rbg, order, listFails)} :
            /\ cr' = r.cr
            /\ pc' = IF r.err = "nil" THEN "built" ELSE "idle"
            /\ creates' = IF r.err = "nil" THEN creates + 1 ELSE creates
    /\ revisions' = NoList
    /\ clean' = NoCall
    /\ UNCHANGED <<store, rbg, clock, listSel, createdLog, deletedNames, partial, changes>>
    /\ UNCHANGED call

CreateStep ==
    /\ pc = "built"
    /\ \E createFails \in BOOLEAN :
        \E r \in {Create(store, cr, clock, createFails)} :
            /\ store' = r.store
            /\ createdLog' = IF r.err = "nil" THEN Append(createdLog, cr.revision)
                             ELSE createdLog
    /\ clock' = clock + 1
    /\ cr' = Nil
    /\ pc' = "idle"
    /\ UNCHANGED <<rbg, revisions, listSel, clean, deletedNames, partial, creates, changes>>
    /\ UNCHANGED call

ListStep ==
    /\ pc \in {"idle", "cleaned"}
    /\ \E order \in ListOrders, listFails \in BOOLEAN :
        \E r \in {ListRevisions(store, rbg, ParentSelector(rbg), order, listFails)} :
            /\ revisions' = IF r.err = "nil" THEN r ELSE NoList
            /\ pc' = IF r.err = "nil" THEN "listed" ELSE "idle"
    /\ listSel' = ParentSelector(rbg)
    /\ clean' = NoCall
    /\ UNCHANGED <<store, rbg, clock, cr, createdLog, deletedNames, partial, creates,
                   changes>>
    /\ UNCHANGED call

Deleted(before, after, calls) ==
    {c.name : c \in {x \in Range(calls) : HasKey(before, x) /\ ~HasKey(after, x)}}

Clean(input, retry) ==
    \E failAt \in 0..(IF Len(input) > HistoryLimit THEN Len(input) - HistoryLimit ELSE 0) :
        \E r \in {CleanExpiredRevision(store, rbg, input, failAt)} :
            /\ store' = r.store
            /\ clean' = [called |-> TRUE, retry |-> retry, input |-> input,
                         calls |-> r.calls, result |-> r.result, err |-> r.err,
                         deletedBefore |-> deletedNames]
            /\ deletedNames' = deletedNames \cup Deleted(store, r.store, r.calls)
            /\ partial' = (partial \/ (r.err # "nil" /\ Deleted(store, r.store, r.calls) # {}))

\* pruning over the revisions just listed
CleanStep ==
    /\ pc = "listed"
    /\ Clean(revisions.owned, FALSE)
    /\ pc' = "cleaned"
    /\ revisions' = NoList
    /\ UNCHANGED <<rbg, clock, cr, listSel, createdLog, creates, changes>>
    /\ UNCHANGED call

\* pruning again over the slice a failed call returned
RetryStep ==
    /\ pc = "cleaned"
    /\ clean.err # "nil"
    /\ ~clean.retry
    /\ Clean(clean.result, TRUE)
    /\ UNCHANGED <<rbg, clock, pc, cr, revisions, listSel, createdLog, creates, changes>>
    /\ UNCHANGED call

Next ==
    \/ SpecChange
    \/ NewRevisionStep
    \/ CreateStep
    \/ ListStep
    \/ CleanStep
    \/ RetryStep

Spec == Init /\ [][Next]_vars

\* the reconcile runs on: a built revision is submitted, and of the listings and
\* prunes that are attempted again and again some succeed
FairSpec ==
    /\ Spec
    /\ WF_vars(CreateStep)
    /\ SF_vars(ListStep /\ pc' = "listed")
    /\ SF_vars(CleanStep /\ clean'.err = "nil")

\* a parent that configures a history limit of nine
LimitInit ==
    /\ store = Foreign \cup Orphans
    /\ rbg = Parent([set |-> TRUE, value |-> 9])
    /\ Idle
    /\ NoCallee

LimitSpec == LimitInit /\ [][Next]_vars

-----------------------------------------------------------------------------
(* ListRevisions over arbitrary store contents and selectors *)

Revision(name, namespace, labels, refs) ==
    [name |-> name, namespace |-> namespace, labels |-> labels, ownerRefs |-> refs,
     revision |-> 1, creationTimestamp |-> 0, raw |-> <<>>]

ParentRef(controller) == [uid |-> ParentUID, controller |-> controller]

App(value) == "app" :> value

\* the records of TestListRevisions (names o, u, d, w, l), and four with owner
\* references that are not controllers or with no labels (names n, m, p, q)
Pool ==
    { Revision(<<111>>, "default", App("test"), <<ParentRef(TRUE)>>),
      Revision(<<117>>, "default", App("test"), <<>>),
      Revision(<<100>>, "default", App("test"), <<OtherRef(TRUE)>>),
      Revision(<<119>>, "other", App("test"), <<ParentRef(TRUE)>>),
      Revision(<<108>>, "default", App("other"), <<ParentRef(TRUE)>>),
      Revision(<<110>>, "default", App("test"), <<OtherRef(FALSE)>>),
      Revision(<<109>>, "default", App("test"), <<ParentRef(FALSE), OtherRef(TRUE)>>),
      Revision(<<112>>, "default", <<>>, <<OtherRef(FALSE), ParentRef(TRUE)>>),
      Revision(<<113>>, "default", <<>>, <<>>) }

\* nil, labels.Everything(), and the two label sets of TestListRevisions
Selectors ==
    { NilSelector,
      [isNil |-> FALSE, match |-> <<>>],
      [isNil |-> FALSE, match |-> App("test")],
      [isNil |-> FALSE, match |-> App("nonexistent")] }

ListInit ==
    /\ store \in SUBSET Pool
    /\ rbg = Parent(Unspecified)
    /\ Idle
    /\ NoCallee

\* ListRevisions(ctx, client, parent, selector) called with any selector
ListCall ==
    /\ \E selector \in Selectors, order \in ListOrders, listFails \in BOOLEAN :
        /\ revisions' = ListRevisions(store, rbg, selector, order, listFails)
        /\ listSel' = selector
    /\ pc' = "called"
    /\ UNCHANGED <<store, rbg, clock, cr, clean, createdLog, deletedNames, partial,
                   creates, changes>>
    /\ UNCHANGED call

ListSpec == ListInit /\ [][ListCall]_vars

-----------------------------------------------------------------------------
(* The helpers called on their own *)

\* the worker stands by with an empty store
Standby ==
    /\ store = {}
    /\ rbg = Parent(Unspecified)
    /\ Idle

NoReturn == [called |-> FALSE, value |-> Nil]
Returned(v) == [called |-> TRUE, value |-> v]

\* revision numbers of in-memory records: int64, negative ones included
RevisionNumbers == -2..2

\* slices of at most n records, the i-th named by the letter i
Slices(n) ==
    UNION {[1..k -> RevisionNumbers] : k \in 0..n}

Records(numbers) ==
    [i \in DOMAIN numbers |-> [name |-> <<96 + i>>, revision |-> numbers[i]]]

\* a nil slice has length 0, as an empty one
HighestInit ==
    /\ Standby
    /\ args \in {[revisions |-> Records(numbers), isNil |-> isNil] :
                    numbers \in Slices(MaxRevisions), isNil \in BOOLEAN}
    /\ args.isNil => args.revisions = <<>>
    /\ ret = NoReturn

HighestCall ==
    /\ ~ret.called
    /\ ret' = Returned(GetHighestRevision(args.revisions))
    /\ UNCHANGED <<args, ran, work>>

HighestSpec == HighestInit /\ [][HighestCall]_vars

\* group policies and role lists of parents: none, two timeouts; the lists of
\* RoleSets, one that names a role twice and one whose role has no name
Policies == {Nil, GangPolicy(300), GangPolicy(600)}

RoleLists ==
    Range(RoleSets)
    \cup { <<[name |-> <<97>>, replicas |-> 1], [name |-> <<97>>, replicas |-> 2]>>,
           <<[name |-> <<>>, replicas |-> 1]>> }

\* the parent a revision is built from, and the live parent it is applied to
Historical ==
    {[Parent(Unspecified) EXCEPT !.roles = roles, !.podGroupPolicy = policy] :
        roles \in RoleLists, policy \in Policies}

Live ==
    {[h EXCEPT !.name = name, !.revisionHistoryLimit = limit] :
        h \in Historical, name \in {ParentName, <<113>>},
        limit \in {Unspecified, [set |-> TRUE, value |-> 5]}}

RestoreInit ==
    /\ Standby
    /\ args \in [historical : Historical, live : Live]
    /\ ret = NoReturn

\* NewRevision over the empty store, for the historical parent
BuildCall ==
    /\ cr = Nil /\ pc = "idle"
    /\ \E r \in {NewRevision(store, args.historical, "asc", FALSE)} :
        /\ cr' = r.cr
        /\ pc' = IF r.err = "nil" THEN "built" ELSE "failed"
    /\ UNCHANGED <<store, rbg, clock, revisions, listSel, clean, createdLog, deletedNames,
                   partial, creates, changes>>
    /\ UNCHANGED call

\* ApplyRevision of the built revision onto the live parent
ApplyCall ==
    /\ pc = "built" /\ ~ret.called
    /\ ret' = Returned(ApplyRevision(args.live, cr))
    /\ UNCHANGED <<args, ran, work>>

RestoreSpec == RestoreInit /\ [][BuildCall \/ ApplyCall]_vars

\* Data.Raw and Data.Object of the records EqualRevision compares: a slice is nil
\* or holds items, an object is nil or holds a roles slice
Slice(isNil, items) == [isNil |-> isNil, bytes |-> items]

Raws ==
    {Slice(TRUE, <<>>), Slice(FALSE, <<>>)}
    \cup {Slice(FALSE, getRBGPatch([Parent(Unspecified) EXCEPT !.roles = RoleSets[i]])) :
            i \in DOMAIN RoleSets}

Objects ==
    {Nil, [roles |-> [isNil |-> TRUE, items |-> <<>>]],
          [roles |-> [isNil |-> FALSE, items |-> <<>>]]}
    \cup {[roles |-> [isNil |-> FALSE, items |-> RoleSets[i]]] : i \in DOMAIN RoleSets}

Compared == {Nil} \cup {[data |-> [raw |-> raw, object |-> object]] :
                            raw \in Raws, object \in Objects}

EqualInit ==
    /\ Standby
    /\ args \in [lhs : Compared, rhs : Compared]
    /\ ret = NoReturn

\* EqualRevision(lhs, rhs)
EqualCall ==
    /\ ~ret.called
    /\ ret' = Returned(<<EqualRevision(args.lhs, args.rhs)>>)
    /\ UNCHANGED <<args, ran, work>>

\* EqualRevision(rhs, lhs), after the call above
SwappedCall ==
    /\ ret.called /\ Len(ret.value) = 1
    /\ ret' = Returned(Append(ret.value, EqualRevision(args.rhs, args.lhs)))
    /\ UNCHANGED <<args, ran, work>>

EqualSpec == EqualInit /\ [][EqualCall \/ SwappedCall]_vars

\* hashRevision of two records, one after the other
HashInit ==
    /\ Standby
    /\ args \in [lhs : Compared \ {Nil}, rhs : Compared \ {Nil}]
    /\ ret = NoReturn

HashCall ==
    /\ ~ret.called
    /\ ret' = Returned(<<hashRevisionOf(args.lhs)>>)
    /\ UNCHANGED <<args, ran, work>>

HashOtherCall ==
    /\ ret.called /\ Len(ret.value) = 1
    /\ ret' = Returned(Append(ret.value, hashRevisionOf(args.rhs)))
    /\ UNCHANGED <<args, ran, work>>

HashSpec == HashInit /\ [][HashCall \/ HashOtherCall]_vars

\* parent names of the lengths around the truncation point, each byte telling
\* its position
PrefixLengths == {0, 1, 219, 220, 221, 253, 300}

Prefixes == {[i \in 1..n |-> 97 + (i % 26)] : n \in PrefixLengths}

\* content hashes: the encoded sums of the smallest, the initial and the largest
\* 32-bit hash state and of the patches of the known role lists
Hashes ==
    {SafeEncodeString(SprintSum32(h)) : h \in {<<0, 0>>, New32a, <<65535, 65535>>}}
    \cup {hashRevision(raw.bytes) : raw \in Raws}

\* int64 revision numbers, the least and the greatest included
MinInt64 == [neg |-> TRUE, hi |-> 9, mid |-> 223372036, lo |-> 854775808]

MaxInt64 == [neg |-> FALSE, hi |-> 9, mid |-> 223372036, lo |-> 854775807]

RevisionNumbers64 ==
    {Int64(n) : n \in {-1, 0, 1, 10, 2147483647}} \cup {MinInt64, MaxInt64}

NameInit ==
    /\ Standby
    /\ args \in [prefix : Prefixes, hash : Hashes, revisionNumber : RevisionNumbers64]
    /\ ret = NoReturn

NameCall ==
    /\ ~ret.called
    /\ ret' = Returned(revisionName(args.prefix, args.hash, args.revisionNumber))
    /\ UNCHANGED <<args, ran, work>>

NameSpec == NameInit /\ [][NameCall]_vars

\* patch documents handed to getRoleHashMap: no bytes, documents without the
\* expected spec or roles, and patches with up to two role entries, sound or not
RoleEntries ==
    <<EncodeRole(RoleSets[2][1]), EncodeRole(RoleSets[2][2]),
      JObject("replicas" :> JNumber(1)),
      JObject("name" :> JString(<<>>)),
      JObject("name" :> JNumber(1)),
      JNumber(1)>>

RoleArrays ==
    {<<>>} \cup {<<e>> : e \in DOMAIN RoleEntries}
           \cup {<<e, f>> : e \in DOMAIN RoleEntries, f \in DOMAIN RoleEntries}

Unexpected ==
    <<JNull, JArray(<<>>), JObject(<<>>),
      JObject("spec" :> JNumber(1)),
      JObject("spec" :> JObject(<<>>)),
      JObject("spec" :> JObject("roles" :> JNull)),
      JObject("spec" :> JObject("roles" :> JObject(<<>>)))>>

Documents ==
    {<<>>}
    \cup {Marshal(Unexpected[i]) : i \in DOMAIN Unexpected}
    \cup {Marshal(JObject("spec" :> JObject(
                ("roles" :> JArray([i \in DOMAIN roles |-> RoleEntries[roles[i]]]))
                @@ ("$path" :> JString(Ascii["replace"]))))) :
            roles \in RoleArrays}

\* either a document for getRoleHashMap or a parent for NewRevision
RoleHashInit ==
    /\ Standby
    /\ args \in {[raw |-> d] : d \in Documents}
                \cup {[parent |-> h] : h \in Live}
    /\ ret = NoReturn

\* getRoleHashMap of a revision with the given Data.Raw
RoleHashCall ==
    /\ ~ret.called /\ "raw" \in DOMAIN args
    /\ ret' = Returned(getRoleHashMap(args.raw))
    /\ UNCHANGED <<args, ran, work>>

\* NewRevision over the empty store
NewRevisionCall ==
    /\ ~ret.called /\ "parent" \in DOMAIN args
    /\ ret' = Returned(NewRevision(store, args.parent, "asc", FALSE))
    /\ UNCHANGED <<args, ran, work>>

RoleHashSpec == RoleHashInit /\ [][RoleHashCall \/ NewRevisionCall]_vars

\* a map[string]string as a function of its keys; a nil map and an empty map
\* both have no keys
mapsSatisfy(desired, actual) ==
    \A k \in DOMAIN desired : k \in DOMAIN actual /\ actual[k] = desired[k]

\* a comparison that wants the two maps equal key for key
objectMetaEqualExact(meta1, meta2) ==
    IF meta1.labels # meta2.labels THEN [ok |-> FALSE, err |-> "labels not equal"]
    ELSE IF meta1.annotations # meta2.annotations
         THEN [ok |-> FALSE, err |-> "annotations not equal"]
    ELSE [ok |-> TRUE, err |-> "nil"]

\* objectMetaEqual(meta1, meta2): meta1 is the object found, meta2 the one wanted;
\* the result is [ok, err]
objectMetaEqual(meta1, meta2) ==
    IF ~mapsSatisfy(meta2.labels, meta1.labels)
    THEN [ok |-> FALSE, err |-> "labels not equal"]
    ELSE IF ~mapsSatisfy(meta2.annotations, meta1.annotations)
         THEN [ok |-> FALSE, err |-> "annotations not equal"]
    ELSE [ok |-> TRUE, err |-> "nil"]

\* label and annotation maps over two keys and two values
StringMaps(keys) ==
    UNION {[present -> {"1", "2"}] : present \in SUBSET keys}

Metas == [labels : StringMaps({"a", "b"}), annotations : StringMaps({"a"})]

MetaInit ==
    /\ Standby
    /\ args \in [desired : Metas, actual : Metas]
    /\ ret = NoReturn

MetaCall ==
    /\ ~ret.called
    /\ ret' = Returned(objectMetaEqual(args.actual, args.desired))
    /\ UNCHANGED <<args, ran, work>>

MetaSpec == MetaInit /\ [][MetaCall]_vars

\* the environment of a container as the set of its name/value pairs
EnvSet(env) == {env[i] : i \in DOMAIN env}

\* a comparison that looks at the image before the name
containerEqualImageFirst(c1, c2) ==
    IF c1.image # c2.image THEN [ok |-> FALSE, err |-> "container image not equal"]
    ELSE IF c1.name # c2.name THEN [ok |-> FALSE, err |-> "container name not equal"]
    ELSE IF EnvSet(c1.env) # EnvSet(c2.env) THEN [ok |-> FALSE, err |-> "env not equal"]
    ELSE IF c1.startupProbe # c2.startupProbe
         THEN [ok |-> FALSE, err |-> "container startup probe not equal"]
    ELSE IF c1.livenessProbe # c2.livenessProbe
         THEN [ok |-> FALSE, err |-> "container liveness probe not equal"]
    ELSE IF c1.readinessProbe # c2.readinessProbe
         THEN [ok |-> FALSE, err |-> "container readiness probe not equal"]
    ELSE [ok |-> TRUE, err |-> "nil"]

\* containerEqual(c1, c2): name, image, env, startup probe, liveness probe and
\* readiness probe, in this order; the result is [ok, err]
containerEqual(c1, c2) ==
    IF c1.name # c2.name THEN [ok |-> FALSE, err |-> "container name not equal"]
    ELSE IF c1.image # c2.image THEN [ok |-> FALSE, err |-> "container image not equal"]
    ELSE IF EnvSet(c1.env) # EnvSet(c2.env) THEN [ok |-> FALSE, err |-> "env not equal"]
    ELSE IF c1.startupProbe # c2.startupProbe
         THEN [ok |-> FALSE, err |-> "container startup probe not equal"]
    ELSE IF c1.livenessProbe # c2.livenessProbe
         THEN [ok |-> FALSE, err |-> "container liveness probe not equal"]
    ELSE IF c1.readinessProbe # c2.readinessProbe
         THEN [ok |-> FALSE, err |-> "container readiness probe not equal"]
    ELSE [ok |-> TRUE, err |-> "nil"]

\* *corev1.Probe: nil or a probe with its timeout
Probe(timeoutSeconds) == [isNil |-> FALSE, timeoutSeconds |-> timeoutSeconds]

EnvVar(name, value) == [name |-> name, value |-> value]

baseContainer ==
    [name |-> "app", image |-> "nginx:latest",
     env |-> <<EnvVar("ENV", "prod")>>,
     startupProbe |-> Probe(10), livenessProbe |-> Probe(10),
     readinessProbe |-> Probe(10)]

\* containers that differ from the base in any choice of fields
Containers ==
    [name : {"app", "diff"}, image : {"nginx:latest", "busybox"},
     env : {<<EnvVar("ENV", "prod")>>, <<EnvVar("ENV", "dev")>>},
     startupProbe : {Probe(10), Probe(0)},
     livenessProbe : {Probe(10), Probe(5)},
     readinessProbe : {Probe(10), Probe(5), Nil}]

\* the base, and the base with a second variable, in either order
Bases ==
    {baseContainer,
     [baseContainer EXCEPT !.env = <<EnvVar("ENV", "prod"), EnvVar("TZ", "utc")>>]}

ContainerInit ==
    /\ Standby
    /\ args \in [c1 : Bases,
                 c2 : Containers \cup
                      {[baseContainer EXCEPT
                            !.env = <<EnvVar("TZ", "utc"), EnvVar("ENV", "prod")>>]}]
    /\ ret = NoReturn

ContainerCall ==
    /\ ~ret.called
    /\ ret' = Returned(containerEqual(args.c1, args.c2))
    /\ UNCHANGED <<args, ran, work>>

ContainerSpec == ContainerInit /\ [][ContainerCall]_vars

\* validateConfig: the first complaint about the configuration, "nil" when none
validBackends == {"sglang", "vllm", "trtllm"}

validSystems == {"h100_sxm", "a100_sxm", "b200_sxm", "gb200_sxm", "l40s", "h200_sxm"}

validDatabaseModes == {"SILICON", "HYBRID", "EMPIRICAL", "SOL"}

\* a validation that accepts every configuration
validateConfigLax(config) == "nil"

validateConfig(config) ==
    IF config.ModelName = "" THEN "--model is required"
    ELSE IF config.SystemName = "" THEN "--system is required"
    ELSE IF config.TotalGPUs <= 0 THEN "--total-gpus must be greater than 0"
    ELSE IF config.BackendName \notin validBackends
         THEN "invalid backend " \o config.BackendName
              \o ", must be one of: sglang, vllm, trtllm"
    ELSE IF config.SystemName \notin validSystems
         THEN "invalid system " \o config.SystemName
              \o ", must be one of: h100_sxm, a100_sxm, b200_sxm, gb200_sxm, l40s, h200_sxm"
    ELSE IF config.DatabaseMode \notin validDatabaseModes
         THEN "invalid database-mode " \o config.DatabaseMode
              \o ", must be one of: SILICON, HYBRID, EMPIRICAL, SOL"
    ELSE "nil"

\* the configurations the flags can give
TaskConfigs ==
    [ModelName : {"", "QWEN3_32B"}, SystemName : {"", "h200_sxm", "l40s", "tpu"},
     TotalGPUs : {0, 8}, BackendName : {"sglang", "vllm", "triton"},
     DatabaseMode : {"SILICON", "OTHER"}]

RecommenderInit ==
    /\ Standby
    /\ args \in TaskConfigs
    /\ ret = NoReturn

\* one step of runRecommender: it runs after the step before it has succeeded,
\* and its error, if any, is returned at once
Step(name, previous, errors, wrap) ==
    /\ ~ret.called
    /\ IF previous = "" THEN ran = <<>>
       ELSE ran # <<>> /\ ran[Len(ran)].step = previous
    /\ \E err \in errors :
        /\ ran' = Append(ran, [step |-> name, err |-> err])
        /\ ret' = IF err = "nil" THEN ret ELSE Returned(wrap \o err)
    /\ UNCHANGED <<args, work>>

ValidateStep ==
    Step("validateConfig", "", {validateConfig(args)},
         "configuration validation failed: ")

CheckStep ==
    Step("CheckAIConfiguratorAvailability", "validateConfig",
         {"nil", "aiconfigurator is not installed", "aiconfigurator version is too old"},
         "")

ExecuteStep ==
    Step("ExecuteAIConfigurator", "CheckAIConfiguratorAvailability",
         {"nil", "aiconfigurator execution failed"}, "")

LocateStep ==
    Step("LocateOutputDirectory", "ExecuteAIConfigurator",
         {"nil", "output directory not found"}, "")

ParseStep ==
    Step("ParseGeneratorConfigs", "LocateOutputDirectory",
         {"nil", "failed to parse generator config"}, "")

RenderDisaggStep ==
    Step("RenderDeploymentYAML(disaggPlan)", "ParseGeneratorConfigs",
         {"nil", "failed to render disagg YAML", "failed to write YAML"},
         "failed to generate disaggregated mode YAML: ")

RenderAggStep ==
    Step("RenderDeploymentYAML(aggPlan)", "RenderDeploymentYAML(disaggPlan)",
         {"nil", "failed to render agg YAML", "failed to write YAML"},
         "failed to generate aggregated mode YAML: ")

\* displayResults, then return nil
DisplayStep ==
    /\ ~ret.called
    /\ ran # <<>> /\ ran[Len(ran)].step = "RenderDeploymentYAML(aggPlan)"
    /\ ran' = Append(ran, [step |-> "displayResults", err |-> "nil"])
    /\ ret' = Returned("nil")
    /\ UNCHANGED <<args, work>>

RecommenderNext ==
    \/ ValidateStep \/ CheckStep \/ ExecuteStep \/ LocateStep \/ ParseStep
    \/ RenderDisaggStep \/ RenderAggStep \/ DisplayStep

RecommenderSpec == RecommenderInit /\ [][RecommenderNext]_vars

\* further records of the parent's history, some as old as the oldest orphans
Surplus ==
    { External(<<108>>, ParentNamespace, ParentName, <<>>, 5, 1),
      External(<<109>>, ParentNamespace, ParentName, <<>>, 5, 0),
      External(<<110>>, ParentNamespace, ParentName, <<>>, 0, 0),
      External(<<111>>, ParentNamespace, ParentName, <<>>, 6, 1) }

\* a prune followed delete by delete: the store holds ten to thirteen records of
\* the parent and two it never lists; the list was taken in either order, and
\* one listed record may have left the store since
PruneInit ==
    /\ rbg = Parent(Unspecified)
    /\ Idle
    /\ ret = NoReturn
    /\ \E more \in SUBSET Surplus, order \in ListOrders, gone \in SUBSET {<<99>>, <<100>>} :
        /\ more # {} /\ Cardinality(gone) <= 1
        /\ store = {o \in Orphans \cup more \cup Foreign : o.name \notin gone}
        /\ args = [objects |-> store,
                   revisions |-> ListRevisions(Orphans \cup more \cup Foreign, rbg,
                                               ParentSelector(rbg), order, FALSE).owned]

\* the entry of CleanExpiredRevision: the early return, or the sort in place
PruneEnter ==
    /\ pc = "idle" /\ ~ret.called
    /\ IF Len(args.revisions) - HistoryLimit <= 0
       THEN /\ ret' = Returned([result |-> args.revisions, err |-> "nil"])
            /\ pc' = "returned"
            /\ clean' = clean
       ELSE /\ clean' = [NoCall EXCEPT !.called = TRUE, !.input = args.revisions,
                                       !.result = SliceStable(args.revisions)]
            /\ pc' = "deleting"
            /\ ret' = ret
    /\ UNCHANGED <<args, ran, store, rbg, clock, cr, revisions, listSel, createdLog,
                   deletedNames, partial, creates, changes>>

\* one turn of the loop: client.Delete of the next entry; its error is returned
\* with the sorted slice
DeleteStep ==
    /\ pc = "deleting"
    /\ Len(clean.calls) < Len(clean.input) - HistoryLimit
    /\ \E deleteFails \in BOOLEAN :
        \E d \in {Delete(store, clean.result[Len(clean.calls) + 1], deleteFails)} :
            /\ store' = d.store
            /\ clean' = [clean EXCEPT !.calls = Append(@, clean.result[Len(@) + 1]),
                                      !.err = d.err]
            /\ IF d.err # "nil"
               THEN /\ ret' = Returned([result |-> clean.result, err |-> d.err])
                    /\ pc' = "returned"
               ELSE /\ ret' = ret
                    /\ pc' = "deleting"
    /\ UNCHANGED <<args, ran, rbg, clock, cr, revisions, listSel, createdLog,
                   deletedNames, partial, creates, changes>>

\* the loop is over: the entries behind the deleted ones are returned
PruneReturn ==
    /\ pc = "deleting"
    /\ Len(clean.calls) = Len(clean.input) - HistoryLimit
    /\ ret' = Returned([result |-> SubSeq(clean.result, Len(clean.calls) + 1,
                                          Len(clean.result)),
                        err |-> "nil"])
    /\ pc' = "returned"
    /\ UNCHANGED <<args, ran, store, rbg, clock, cr, revisions, listSel, clean, createdLog,
                   deletedNames, partial, creates, changes>>

\* the process dies between two deletes
Crash ==
    /\ pc = "deleting"
    /\ pc' = "crashed"
    /\ UNCHANGED <<args, ret, ran, store, rbg, clock, cr, revisions, listSel, clean,
                   createdLog, deletedNames, partial, creates, changes>>

PruneSpec == PruneInit /\ [][PruneEnter \/ DeleteStep \/ PruneReturn \/ Crash]_vars

\* two parents and the history each is built over: the first with or without a
\* group policy over no history, the second without one over no history or over
\* the orphans
Twins(policies, histories) ==
    {[parent |-> parent, history |-> history] :
        parent \in {p \in TwinParents : p.podGroupPolicy \in policies},
        history \in histories}

TwinInit ==
    /\ Standby
    /\ args \in [lhs : Twins({Nil, GangPolicy(300)}, {{}}),
               rhs : Twins({Nil}, {{}, Orphans})]
    /\ ret = NoReturn

\* NewRevision for the first parent over its history, then for the second
\* parent over its own
TwinCall ==
    /\ IF ret.called THEN Len(ret.value) = 1 ELSE TRUE
    /\ \E twin \in {IF ret.called THEN args.rhs ELSE args.lhs} :
        ret' = Returned((IF ret.called THEN ret.value ELSE <<>>)
                        \o <<NewRevision(twin.history, twin.parent, "asc", FALSE)>>)
    /\ UNCHANGED <<args, ran, work>>

\* a record NewRevision built, as EqualRevision reads it: Data.Raw set, no Data.Object
Data(record) == [data |-> [raw |-> Slice(FALSE, record.raw), object |-> Nil]]

\* EqualRevision of the two records
TwinEqualCall ==
    /\ ret.called /\ Len(ret.value) = 2
    /\ ret' = Returned(Append(ret.value,
                              EqualRevision(Data(ret.value[1].cr), Data(ret.value[2].cr))))
    /\ UNCHANGED <<args, ran, work>>

TwinSpec == TwinInit /\ [][TwinCall \/ TwinEqualCall]_vars

-----------------------------------------------------------------------------
(* Vocabulary of the properties *)

\* a sorts strictly before b by (revisionNumber, creationTimestamp, name)
Older(a, b) ==
    \/ a.revision < b.revision
    \/ /\ a.revision = b.revision
       /\ \/ a.creationTimestamp < b.creationTimestamp
          \/ /\ a.creationTimestamp = b.creationTimestamp
             /\ StrLess(a.name, b.name)

\* the entries of a slice of distinct records, oldest first
Ascending(s) ==
    [i \in 1..Len(s) |->
        CHOOSE x \in Range(s) : Cardinality({y \in Range(s) : Older(y, x)}) = i - 1]

\* the entries with fewer than n entries after them
Newest(s, n) == {x \in Range(s) : Cardinality({y \in Range(s) : Older(x, y)}) < n}

Controllers(o) == {ref \in Range(o.ownerRefs) : ref.controller}

\* the records listed for the parent: its namespace, its name label, no foreign controller
History(objects, parent) ==
    {o \in objects :
        /\ o.namespace = parent.namespace
        /\ SetNameLabelKey \in DOMAIN o.labels
        /\ o.labels[SetNameLabelKey] = parent.name
        /\ \A ref \in Controllers(o) : ref.uid = parent.uid}

\* the records the parent controls
OwnedBy(objects, parent) ==
    {o \in History(objects, parent) : Controllers(o) # {}}

Pruning == clean.called /\ Len(clean.input) > HistoryLimit

-----------------------------------------------------------------------------
(* Properties *)

\* C1: the number NewRevision assigns exceeds the number of every revision of the
\* parent in the store at that moment; the numbers persisted for the parent rise
\* strictly in creation order and the parent's stored revisions carry distinct numbers.
C1_RevisionNumbersIncrease ==
    /\ pc = "built" => \A o \in History(store, rbg) : o.revision < cr.revision
    /\ \A i, j \in 1..Len(createdLog) : i < j => createdLog[i] < createdLog[j]
    /\ \A a, b \in OwnedBy(store, rbg) : a # b => a.revision # b.revision

\* a revision is built after two were persisted and a prune has deleted some
C1_Witness == pc = "built" /\ Len(createdLog) >= 2 /\ deletedNames # {}

\* C2: whether the deletes succeed or one fails partway, none of the HistoryLimit
\* newest entries of the list (the greatest revision number among them) is handed
\* to client.Delete, and each is still in the store after the call.
C2_NewestNeverDeleted ==
    Pruning =>
        \A x \in Newest(clean.input, HistoryLimit) :
            x \notin Range(clean.calls) /\ x \in store

\* a prune over twelve entries whose second delete failed
C2_Witness ==
    /\ Pruning /\ Len(clean.input) = HistoryLimit + 2
    /\ clean.err = "StoreError" /\ Len(clean.calls) = 2

\* C3: a successful prune of N > HistoryLimit entries deletes exactly the first
\* N - HistoryLimit entries of the ascending order and returns the other
\* HistoryLimit entries, ascending, each sorting after every deleted one.
C3_PrunesOldestSurplus ==
    (Pruning /\ clean.err = "nil") =>
        LET n == Len(clean.input)
            asc == Ascending(clean.input)
        IN  /\ clean.calls = SubSeq(asc, 1, n - HistoryLimit)
            /\ clean.result = SubSeq(asc, n - HistoryLimit + 1, n)
            /\ Len(clean.result) = HistoryLimit
            /\ \A d \in Range(clean.calls) :
                /\ d \notin store
                /\ \A k \in Range(clean.result) : Older(d, k)

\* a successful prune of twelve entries that were not listed in ascending order
C3_Witness ==
    /\ Pruning /\ clean.err = "nil" /\ Len(clean.input) = HistoryLimit + 2
    /\ clean.input # Ascending(clean.input)

\* C4: after a prune of the parent's full list returns no error, the store holds
\* at most the parent's configured revisionHistoryLimit (10 when unspecified)
\* revisions of the parent.
C4_AtMostConfiguredLimit ==
    (clean.called /\ ~clean.retry /\ clean.err = "nil") =>
        Cardinality(History(store, rbg)) <= DocumentedLimit(rbg)

\* C5: a list of at most HistoryLimit entries is returned as it was passed, with
\* no error and no delete issued.
C5_ShortListUntouched ==
    (clean.called /\ Len(clean.input) <= HistoryLimit) =>
        /\ clean.calls = <<>>
        /\ clean.result = clean.input
        /\ clean.err = "nil"
        /\ deletedNames = clean.deletedBefore

\* a list of exactly HistoryLimit entries, not in ascending order
C5_Witness ==
    /\ clean.called /\ Len(clean.input) = HistoryLimit
    /\ clean.input # Ascending(clean.input)

\* C6 as stated: a failed prune returns the entries in the order they were passed.
C6_ReturnsInputOrder ==
    (clean.called /\ clean.err # "nil") => clean.result = clean.input

\* C6: a failed prune returns, with the error, every entry of the input - none
\* removed - in ascending (revisionNumber, creationTimestamp, name) order.
C6_ReturnsInputSorted ==
    (clean.called /\ clean.err # "nil") => clean.result = Ascending(clean.input)

\* the second delete of a fresh list failed and the list comes back reordered
C6_Witness ==
    /\ clean.called /\ ~clean.retry /\ clean.err = "StoreError"
    /\ Len(clean.calls) = 2 /\ clean.result # clean.input

\* C7 as stated: a retry over the slice returned with the error issues no delete
\* for a revision an earlier call deleted.
C7_RetryNeverRedeletes ==
    (clean.called /\ clean.retry) =>
        \A c \in Range(clean.calls) : c.name \notin clean.deletedBefore

\* C7: a prune over a fresh listing issues no delete for a revision an earlier
\* call deleted; a retry over the returned slice that does is refused by the
\* store (NotFound) and deletes nothing.
C7_FreshListNeverRedeletes ==
    /\ (clean.called /\ ~clean.retry) =>
            \A c \in Range(clean.calls) : c.name \notin clean.deletedBefore
    /\ (clean.called /\ clean.retry
            /\ \E c \in Range(clean.calls) : c.name \in clean.deletedBefore) =>
            clean.err = "NotFound" /\ deletedNames = clean.deletedBefore

\* after a partial failure, a prune over a fresh listing deletes the rest
C7_Witness ==
    /\ clean.called /\ ~clean.retry /\ partial
    /\ clean.deletedBefore # {} /\ clean.calls # <<>> /\ clean.err = "nil"

\* the parent's revisions in the store
Count == Cardinality(History(store, rbg))

\* the step is a call of CleanExpiredRevision (over a listing or as a retry)
PruneCall == pc = "listed" \/ (pc = "cleaned" /\ ~clean.retry /\ clean'.called /\ clean'.retry)

\* C8: no call of CleanExpiredRevision increases the number of the parent's
\* revisions in the store; when the reconcile lists afresh and prunes again after
\* every failure and deletes succeed in the end, the parent eventually keeps at most
\* HistoryLimit revisions for good, and a call made within the limit deletes nothing.
C8_ReinvocationConverges ==
    /\ [][PruneCall => Cardinality(History(store', rbg')) <= Count]_vars
    /\ <>[](Count <= HistoryLimit)
    /\ [][(PruneCall /\ Count <= HistoryLimit) => store' = store]_vars

\* after a partial failure the history is down to the limit, and a further call
\* over a fresh listing issued no delete
C8_Witness ==
    /\ partial /\ Count = HistoryLimit
    /\ clean.called /\ ~clean.retry /\ clean.calls = <<>> /\ clean.err = "nil"

\* the records a selector matches: none for nil, else those carrying each of its pairs
Matching(selector) ==
    IF selector.isNil THEN {}
    ELSE {o \in store : \A k \in DOMAIN selector.match :
                            k \in DOMAIN o.labels /\ o.labels[k] = selector.match[k]}

\* the records with no controller owner or with the parent as controller owner
Adoptable == {o \in store : \A ref \in Controllers(o) : ref.uid = rbg.uid}

InNamespace == {o \in store : o.namespace = rbg.namespace}

Listed == pc = "called" /\ revisions.err = "nil"

\* C9: a listing returns, once each, exactly the records in the parent's namespace
\* that match the selector and have no controller owner or the parent as
\* controller owner.
C9_ListsExactlyOwnedOrOrphan ==
    Listed =>
        /\ Range(revisions.owned) = (InNamespace \cap Matching(listSel)) \cap Adoptable
        /\ Len(revisions.owned) = Cardinality(Range(revisions.owned))

\* a listing by label over a store holding every record of the pool
C9_Witness ==
    /\ Listed /\ store = Pool /\ listSel.match = App("test")
    /\ Len(revisions.owned) = 3

\* C10: with a nil selector the listing is empty and, unless the store itself
\* refuses the list call, carries no error; with an empty non-nil selector every
\* record in the namespace is selected, whatever its labels, and those with no
\* foreign controller owner are returned.
C10_NilSelectsNothingEmptySelectsAll ==
    pc = "called" =>
        /\ listSel.isNil =>
            /\ revisions.owned = <<>>
            /\ revisions.err \in {"nil", "StoreError"}
        /\ (revisions.err = "nil" /\ ~listSel.isNil /\ DOMAIN listSel.match = {}) =>
            /\ \A order \in ListOrders :
                    Range(List(store, rbg.namespace, listSel, order)) = InNamespace
            /\ Range(revisions.owned) = InNamespace \cap Adoptable

\* a nil-selector listing, without error, over a store that holds a record the
\* parent controls in its namespace
C10_Witness ==
    /\ Listed /\ listSel.isNil
    /\ \E o \in InNamespace : \E ref \in Controllers(o) : ref.uid = rbg.uid

\* C11 as stated: from a non-empty list GetHighestRevision returns an element
\* whose number no other element exceeds; from an empty or nil one, nothing.
C11_HighestOfAnyList ==
    ret.called =>
        IF args.revisions = <<>> THEN ret.value = Nil
        ELSE /\ ret.value \in Range(args.revisions)
             /\ \A e \in Range(args.revisions) : e.revision <= ret.value.revision

\* C11: from a list holding a number that is not negative GetHighestRevision
\* returns an element whose number no other element exceeds; from a list of
\* negative numbers only, as from an empty or nil one, it returns nothing.
C11_HighestOfNonNegative ==
    ret.called =>
        IF \E e \in Range(args.revisions) : e.revision >= 0
        THEN /\ ret.value \in Range(args.revisions)
             /\ \A e \in Range(args.revisions) : e.revision <= ret.value.revision
        ELSE ret.value = Nil

\* the highest number, zero, stands between a negative and a lower one
C11_Witness ==
    /\ ret.called /\ Len(args.revisions) = 3
    /\ args.revisions[2].revision = 0 /\ ret.value = args.revisions[2]
    /\ args.revisions[1].revision < 0

\* C12: the record NewRevision returns is numbered 1 when the parent's listing
\* is empty, and otherwise one more than the highest number listed.
C12_NextRevisionNumber ==
    pc = "built" =>
        LET listed == History(store, rbg)
        IN  IF listed = {} THEN cr.revision = 1
            ELSE /\ \E o \in listed : cr.revision = o.revision + 1
                 /\ \A o \in listed : cr.revision > o.revision

\* a first revision built over nine listed records, two of them sharing the
\* highest number
C12_Witness ==
    /\ pc = "built" /\ Cardinality(History(store, rbg)) = 9
    /\ Cardinality({o \in History(store, rbg) : o.revision + 1 = cr.revision}) = 2

\* the spec object of the patch of the revision just built
PatchSpec == Unmarshal(cr.raw).v["spec"].v

Built == pc = "built" /\ cr # Nil

\* C13: the spec object of the patch carries "$patch": "replace" beside the roles.
C13_PatchHasReplaceDirective ==
    Built =>
        /\ "roles" \in DOMAIN PatchSpec
        /\ "$patch" \in DOMAIN PatchSpec
        /\ PatchSpec["$patch"] = JString(Ascii["replace"])

\* the roles of the historical parent as the patch writes them
HistoricalRoles ==
    JArray([i \in DOMAIN args.historical.roles |-> EncodeRole(args.historical.roles[i])])

\* C14 as stated: the patch holds the parent's roles and its group policy, and
\* no metadata or status.
C14_PatchHasRolesAndPolicy ==
    Built =>
        /\ DOMAIN Unmarshal(cr.raw).v = {"spec"}
        /\ PatchSpec["roles"] = HistoricalRoles
        /\ args.historical.podGroupPolicy # Nil =>
                "podGroupPolicy" \in DOMAIN PatchSpec

\* C14: the patch holds, under spec, the parent's full roles list and the entry
\* "$path": "replace", and nothing else: no group policy, no metadata, no status.
C14_PatchHasRolesOnly ==
    Built =>
        /\ DOMAIN Unmarshal(cr.raw).v = {"spec"}
        /\ DOMAIN PatchSpec = {"roles", "$path"}
        /\ PatchSpec["roles"] = HistoricalRoles
        /\ PatchSpec["$path"] = JString(Ascii["replace"])

\* a patch built from a parent with two roles and a group policy
C14_Witness ==
    /\ Built /\ Len(args.historical.roles) = 2
    /\ args.historical.podGroupPolicy = GangPolicy(600)

\* ApplyRevision has returned: the restored parent
Applied == ret.called

Restored == ret.value.restored

\* C15: the revision built from a parent, applied to that same parent, gives back
\* the parent's roles and group policy.
C15_RoundTrip ==
    (Applied /\ args.live = args.historical) =>
        /\ ret.value.err = "nil"
        /\ Restored.roles = args.historical.roles
        /\ Restored.podGroupPolicy = args.historical.podGroupPolicy

\* a round trip of a parent with two roles and a group policy
C15_Witness ==
    /\ Applied /\ args.live = args.historical
    /\ Len(args.historical.roles) = 2
    /\ args.historical.podGroupPolicy = GangPolicy(300)
    /\ Restored = args.historical

\* the live parent differs from the historical one in roles or in group policy
Differs ==
    \/ args.live.roles # args.historical.roles
    \/ args.live.podGroupPolicy # args.historical.podGroupPolicy

\* C16 as stated: restored onto a differing live parent, roles and group policy
\* are both the historical ones.
C16_RestoresRolesAndPolicy ==
    (Applied /\ Differs) =>
        /\ Restored.roles = args.historical.roles
        /\ Restored.podGroupPolicy = args.historical.podGroupPolicy

\* C16: restored onto a differing live parent, the roles are exactly the
\* historical ones, whatever the lengths of the two lists, and the group policy
\* is the live parent's.
C16_RestoresRolesKeepsPolicy ==
    (Applied /\ Differs) =>
        /\ Restored.roles = args.historical.roles
        /\ Restored.podGroupPolicy = args.live.podGroupPolicy

\* one historical role restored onto a live parent with two roles and another
\* group policy
C16_Witness ==
    /\ Applied
    /\ Len(args.historical.roles) = 1 /\ Len(args.live.roles) = 2
    /\ args.historical.podGroupPolicy = GangPolicy(300)
    /\ args.live.podGroupPolicy = GangPolicy(600)
    /\ Restored.roles = args.historical.roles
    /\ Restored.podGroupPolicy = GangPolicy(600)

\* C17: the restored parent has the live parent's name, namespace, uid, history
\* limit and group policy, none of which the patch covers, and the live parent
\* passed in is left as it was.
C17_UncoveredFieldsKept ==
    /\ [](Applied =>
            /\ Restored.name = args.live.name
            /\ Restored.namespace = args.live.namespace
            /\ Restored.uid = args.live.uid
            /\ Restored.revisionHistoryLimit = args.live.revisionHistoryLimit
            /\ Restored.podGroupPolicy = args.live.podGroupPolicy)
    /\ [][args' = args]_vars

\* a live parent of another name, with a history limit and a group policy,
\* restored to other roles
C17_Witness ==
    /\ Applied
    /\ args.live.name # args.historical.name
    /\ args.live.revisionHistoryLimit.set
    /\ args.live.podGroupPolicy # Nil
    /\ args.live.roles # args.historical.roles
    /\ Restored.roles = args.historical.roles
    /\ Restored.revisionHistoryLimit = args.live.revisionHistoryLimit

\* C18: two absent revisions are equal, an absent and a present one are not, and
\* two present ones are equal exactly when their raw bytes are byte-equal and
\* their decoded objects are deep-semantically equal; swapping the arguments
\* gives the same answer.
C18_EqualRevision ==
    ret.called =>
        /\ (args.lhs = Nil /\ args.rhs = Nil) => ret.value[1]
        /\ ((args.lhs = Nil) # (args.rhs = Nil)) => ~ret.value[1]
        /\ (args.lhs # Nil /\ args.rhs # Nil) =>
                (ret.value[1] <=>
                    /\ args.lhs.data.raw.bytes = args.rhs.data.raw.bytes
                    /\ SemanticDeepEqual(args.lhs.data.object, args.rhs.data.object))
        /\ Len(ret.value) = 2 => ret.value[2] = ret.value[1]

\* both orders compared for two records of the same raw bytes whose objects differ
C18_Witness ==
    /\ ret.called /\ Len(ret.value) = 2
    /\ args.lhs # Nil /\ args.rhs # Nil
    /\ Len(args.lhs.data.raw.bytes) > 0
    /\ args.lhs.data.raw = args.rhs.data.raw
    /\ args.lhs.data.object # Nil /\ args.rhs.data.object # Nil
    /\ args.lhs.data.object.roles.items # args.rhs.data.object.roles.items
    /\ ret.value = <<FALSE, FALSE>>

\* the length of the parent-name part of a derived name
Kept == IF Len(args.prefix) > 220 THEN 220 ELSE Len(args.prefix)

\* C19: the derived name is the first 220 bytes at most of the parent name, a
\* hyphen, the hash, a hyphen and the revision number in decimal, and it is no
\* longer than 253 bytes.
C19_RevisionName ==
    ret.called =>
        LET name == ret.value
            number == FormatInt64(args.revisionNumber)
            dash == Kept + 1 + Len(args.hash) + 1
        IN  /\ Len(name) = dash + Len(number)
            /\ SubSeq(name, 1, Kept) = SubSeq(args.prefix, 1, Kept)
            /\ name[Kept + 1] = 45
            /\ SubSeq(name, Kept + 2, dash - 1) = args.hash
            /\ name[dash] = 45
            /\ SubSeq(name, dash + 1, Len(name)) = number
            /\ Len(name) <= MaxNameLen

\* the name of the least int64 for a parent name of 300 bytes and a hash of ten
C19_Witness ==
    /\ ret.called
    /\ Len(args.prefix) = 300 /\ Len(args.hash) = 10
    /\ args.revisionNumber = MinInt64
    /\ Len(ret.value) = 252

\* the role names the historical parent declares
DeclaredNames == {args.historical.roles[i].name : i \in DOMAIN args.historical.roles}

\* C20: the labels of the record NewRevision returns are the parent-name label
\* with the parent's name, the whole-revision hash label, and one per-role hash
\* label for each declared role name, holding the hash of a role of that name;
\* there is no other label.
C20_Labels ==
    Built =>
        /\ DOMAIN cr.labels =
                {SetNameLabelKey, RevisionKey}
                \cup {RoleRevisionKeyFmt(n) : n \in DeclaredNames}
        /\ Cardinality(DOMAIN cr.labels) = 2 + Cardinality(DeclaredNames)
        /\ cr.labels[SetNameLabelKey] = args.historical.name
        /\ cr.labels[RevisionKey] = hashRevision(cr.raw)
        /\ \A n \in DeclaredNames :
                \E i \in DOMAIN args.historical.roles :
                    /\ args.historical.roles[i].name = n
                    /\ cr.labels[RoleRevisionKeyFmt(n)] =
                            Sum32aEncoded(Marshal(EncodeRole(args.historical.roles[i])))

\* a record built for a parent that declares two role names: four labels
C20_Witness ==
    /\ Built
    /\ Cardinality(DeclaredNames) = 2
    /\ Cardinality(DOMAIN cr.labels) = 4
    /\ RoleRevisionKeyFmt(<<98>>) \in DOMAIN cr.labels

\* the document of a patch has no roles array under an object spec
LacksRoles(doc) ==
    \/ doc.t # "object"
    \/ "spec" \notin DOMAIN doc.v
    \/ doc.v["spec"].t # "object"
    \/ "roles" \notin DOMAIN doc.v["spec"].v
    \/ doc.v["spec"].v["roles"].t # "array"

\* a role entry without a name that is a non-empty string
Nameless(r) ==
    \/ r.t # "object"
    \/ "name" \notin DOMAIN r.v
    \/ r.v["name"].t # "string"
    \/ r.v["name"].v = <<>>

Malformed(raw) ==
    \/ raw = <<>>
    \/ raw # <<>> /\ LacksRoles(Unmarshal(raw))
    \/ /\ raw # <<>> /\ ~LacksRoles(Unmarshal(raw))
       /\ \E i \in DOMAIN Unmarshal(raw).v["spec"].v["roles"].v :
            Nameless(Unmarshal(raw).v["spec"].v["roles"].v[i])

HashReturned == ret.called /\ "raw" \in DOMAIN args

RecordReturned == ret.called /\ "parent" \in DOMAIN args

\* C21 as stated: every malformed patch, the empty one included, gives an error
\* and no map.
C21_MalformedFails ==
    (HashReturned /\ Malformed(args.raw)) =>
        ret.value.err # "nil" /\ ret.value.isNil

\* C21: a patch that is not empty and lacks the roles array, the expected
\* top-level structure or a non-empty name in some role gives an error and no
\* map, and NewRevision of a parent with such a role returns that error and no
\* record; a revision without patch bytes gives the empty map and no error.
C21_NonEmptyMalformedFails ==
    /\ (HashReturned /\ args.raw # <<>>) =>
            IF Malformed(args.raw)
            THEN ret.value.err # "nil" /\ ret.value.isNil
            ELSE ret.value.err = "nil" /\ ~ret.value.isNil
    /\ (HashReturned /\ args.raw = <<>>) =>
            ret.value.err = "nil" /\ ~ret.value.isNil /\ DOMAIN ret.value.result = {}
    /\ (RecordReturned /\ \E i \in DOMAIN args.parent.roles :
                            args.parent.roles[i].name = <<>>) =>
            /\ ret.value.cr = Nil
            /\ ret.value.err = getRoleHashMap(getRBGPatch(args.parent)).err
            /\ ret.value.err = "role missing name field"

\* a patch whose second role has an empty name was refused
C21_Witness ==
    /\ HashReturned /\ args.raw # <<>> /\ ~LacksRoles(Unmarshal(args.raw))
    /\ Len(Unmarshal(args.raw).v["spec"].v["roles"].v) = 2
    /\ ~Nameless(Unmarshal(args.raw).v["spec"].v["roles"].v[1])
    /\ Unmarshal(args.raw).v["spec"].v["roles"].v[2].t = "object"
    /\ "name" \in DOMAIN Unmarshal(args.raw).v["spec"].v["roles"].v[2].v
    /\ Unmarshal(args.raw).v["spec"].v["roles"].v[2].v["name"].t = "string"
    /\ Unmarshal(args.raw).v["spec"].v["roles"].v[2].v["name"].v = <<>>
    /\ ret.value.isNil /\ ret.value.err = "role missing name field"

\* every key of the wanted map is in the found map with the same value
Contained(desired, actual) ==
    \A k \in DOMAIN desired : k \in DOMAIN actual /\ actual[k] = desired[k]

FieldOrder ==
    <<"container name not equal", "container image not equal", "env not equal",
      "container startup probe not equal", "container liveness probe not equal",
      "container readiness probe not equal">>

\* the positions in FieldOrder of the fields in which the two containers differ
Differing ==
    {i \in DOMAIN FieldOrder :
        \/ i = 1 /\ args.c1.name # args.c2.name
        \/ i = 2 /\ args.c1.image # args.c2.image
        \/ i = 3 /\ \/ \E e \in DOMAIN args.c1.env :
                            \A f \in DOMAIN args.c2.env : args.c1.env[e] # args.c2.env[f]
                    \/ \E f \in DOMAIN args.c2.env :
                            \A e \in DOMAIN args.c1.env : args.c1.env[e] # args.c2.env[f]
        \/ i = 4 /\ args.c1.startupProbe # args.c2.startupProbe
        \/ i = 5 /\ args.c1.livenessProbe # args.c2.livenessProbe
        \/ i = 6 /\ args.c1.readinessProbe # args.c2.readinessProbe}

\* C24: when the containers differ the answer is false with the message of the
\* earliest differing field in the order name, image, env, startup probe,
\* liveness probe, readiness probe; identical containers give true and no error.
C24_FirstMismatchNamed ==
    ret.called =>
        IF Differing = {} THEN ret.value = [ok |-> TRUE, err |-> "nil"]
        ELSE /\ ~ret.value.ok
             /\ \E i \in Differing :
                    /\ \A k \in Differing : i <= k
                    /\ ret.value.err = FieldOrder[i]

\* image, env and readiness probe differ, the name does not: the image is named
C24_Witness ==
    /\ ret.called
    /\ Differing = {2, 3, 6}
    /\ ret.value = [ok |-> FALSE, err |-> "container image not equal"]

\* the documented order of the steps
Workflow ==
    <<"validateConfig", "CheckAIConfiguratorAvailability", "ExecuteAIConfigurator",
      "LocateOutputDirectory", "ParseGeneratorConfigs",
      "RenderDeploymentYAML(disaggPlan)", "RenderDeploymentYAML(aggPlan)",
      "displayResults">>

\* a configuration that passes validation
Valid(config) ==
    /\ config.ModelName # "" /\ config.SystemName # "" /\ config.TotalGPUs > 0
    /\ config.BackendName \in {"sglang", "vllm", "trtllm"}
    /\ config.SystemName \in {"h100_sxm", "a100_sxm", "b200_sxm", "gb200_sxm",
                              "l40s", "h200_sxm"}
    /\ config.DatabaseMode \in {"SILICON", "HYBRID", "EMPIRICAL", "SOL"}

Ran(step) == \E i \in DOMAIN ran : ran[i].step = step

Succeeded(step) == \E i \in DOMAIN ran : ran[i].step = step /\ ran[i].err = "nil"

\* C25: the steps run are an initial part of the documented order; a step that
\* fails is the last one run and the command returns an error; the optimizer
\* runs only for a configuration that passed validation; results are displayed
\* only after both YAML files were written; and the command returns without an
\* error only after all the steps.
C25_StepsInOrder ==
    /\ Len(ran) <= Len(Workflow)
    /\ \A i \in DOMAIN ran : ran[i].step = Workflow[i]
    /\ \A i \in DOMAIN ran :
            ran[i].err # "nil" => i = Len(ran) /\ ret.called /\ ret.value # "nil"
    /\ Ran("validateConfig") => (Succeeded("validateConfig") <=> Valid(args))
    /\ Ran("ExecuteAIConfigurator") => Valid(args)
    /\ Ran("displayResults") =>
            /\ Succeeded("RenderDeploymentYAML(disaggPlan)")
            /\ Succeeded("RenderDeploymentYAML(aggPlan)")
    /\ ret.called =>
            IF ret.value = "nil" THEN Len(ran) = Len(Workflow)
            ELSE ran # <<>> /\ ran[Len(ran)].err # "nil"

\* the aggregated YAML failed after the disaggregated one was written: the
\* command returned that error and displayed nothing
C25_Witness ==
    /\ ret.called
    /\ Len(ran) = 7
    /\ ran[6].err = "nil"
    /\ ran[7] = [step |-> "RenderDeploymentYAML(aggPlan)", err |-> "failed to write YAML"]
    /\ ret.value = "failed to generate aggregated mode YAML: failed to write YAML"
    /\ ~Ran("displayResults")

\* the record whose hash is the i-th returned
Hashed(i) == IF i = 1 THEN args.lhs ELSE args.rhs

\* C26: for a record with patch bytes and a decoded object, the hash is that of
\* the patch bytes followed by the printed object.
C26_PatchBytesContribute ==
    ret.called =>
        \A i \in DOMAIN ret.value :
            (Len(Hashed(i).data.raw.bytes) > 0 /\ Hashed(i).data.object # Nil) =>
                ret.value[i] =
                    Sum32aEncoded(Hashed(i).data.raw.bytes \o Spew(Hashed(i).data.object))

\* the listed records this prune has deleted, and those still in the store
Removed == {x \in Range(args.revisions) : x \in args.objects /\ x \notin store}

Remaining == {x \in Range(args.revisions) : x \in store}

\* C27: in every state of a prune the records deleted so far are the first of the
\* list in ascending (revision, creation time, name) order among those the store
\* held, they were handed to the store in that order, and every listed record
\* still in the store is older than none of them.
C27_DeletedIsPrefix ==
    /\ \A d \in Removed : \A x \in Remaining : Older(d, x)
    /\ \A d \in Removed :
            \A x \in Range(args.revisions) : Older(x, d) => x \notin store
    /\ \A i \in DOMAIN clean.calls : clean.calls[i] = Ascending(args.revisions)[i]
    /\ Removed \subseteq Range(clean.calls)
    /\ (ret.called /\ ret.value.err # "nil") =>
            Removed = Range(SubSeq(clean.calls, 1, Len(clean.calls) - 1))

\* a crash after two of three deletes: the two oldest are gone, the third is kept
C27_Witness ==
    /\ pc = "crashed"
    /\ Len(clean.input) = 13
    /\ Cardinality(Removed) = 2
    /\ Removed = {Ascending(args.revisions)[1], Ascending(args.revisions)[2]}
    /\ Ascending(args.revisions)[3] \in store

\* the positions of a slice that hold its greatest revision number
Greatest(revs) ==
    {i \in DOMAIN revs : \A j \in DOMAIN revs : revs[j].revision <= revs[i].revision}

LastOf(positions) == CHOOSE i \in positions : \A j \in positions : j <= i

\* C28 as stated: when several entries share the greatest number,
\* GetHighestRevision returns the last of them in the order of the slice.
C28_LastOfTiesAnyNumber ==
    (ret.called /\ Cardinality(Greatest(args.revisions)) > 1) =>
        ret.value = args.revisions[LastOf(Greatest(args.revisions))]

\* C28: when several entries share the greatest number and that number is not
\* negative, GetHighestRevision returns the last of them in the order of the
\* slice; when the shared greatest number is negative it returns nothing.
C28_LastOfTies ==
    (ret.called /\ Cardinality(Greatest(args.revisions)) > 1) =>
        IF args.revisions[LastOf(Greatest(args.revisions))].revision >= 0
        THEN ret.value = args.revisions[LastOf(Greatest(args.revisions))]
        ELSE ret.value = Nil

\* the first two of three entries share the greatest number: the second returns
C28_Witness ==
    /\ ret.called /\ Len(args.revisions) = 3
    /\ Greatest(args.revisions) = {1, 2}
    /\ ret.value = args.revisions[2]
    /\ ret.value # args.revisions[1]

\* both records of the twins are built
Twinned == ret.called /\ Len(ret.value) >= 2

\* the entry of a roles list that stands for a name: the last one that carries it
Named(roles, n) ==
    roles[LastOf({i \in DOMAIN roles : roles[i].name = n})]

Names(roles) == {roles[i].name : i \in DOMAIN roles}

\* C29: the hash label NewRevision gives a role depends on that role's content
\* alone: when two parents hold a role with the same content, its label is the
\* same in both records, whatever the other roles hold, wherever the role stands
\* in the list and whatever the revision numbers are.
C29_RoleHashIndependent ==
    Twinned =>
        \A n \in Names(args.lhs.parent.roles) \cap Names(args.rhs.parent.roles) :
            Named(args.lhs.parent.roles, n) = Named(args.rhs.parent.roles, n)
                => ret.value[1].cr.labels[RoleRevisionKeyFmt(n)]
                        = ret.value[2].cr.labels[RoleRevisionKeyFmt(n)]

\* b stands second beside a with one replica and first beside a with two, the
\* records are numbered 1 and 5: the label of b is the same, that of a is not
C29_Witness ==
    /\ Twinned
    /\ args.lhs.parent.roles = <<Entries[1], Entries[3]>>
    /\ args.rhs.parent.roles = <<Entries[3], Entries[2]>>
    /\ ret.value[1].cr.revision = 1 /\ ret.value[2].cr.revision = 5
    /\ ret.value[1].cr.labels[RoleRevisionKeyFmt(<<98>>)]
            = ret.value[2].cr.labels[RoleRevisionKeyFmt(<<98>>)]
    /\ ret.value[1].cr.labels[RoleRevisionKeyFmt(<<97>>)]
            # ret.value[2].cr.labels[RoleRevisionKeyFmt(<<97>>)]

\* a record's name without the digits of its revision number at the end
Stem(record) ==
    SubSeq(record.name, 1, Len(record.name) - Len(FormatInt64(Int64(record.revision))))

\* C30: two records NewRevision builds for parents with the same roles carry the
\* same whole-revision hash label whatever their histories and revision numbers
\* are; each name ends in the record's own revision number and the names are
\* the same before it; and EqualRevision holds between the two records.
C30_HashOfPatchOnly ==
    (Twinned /\ args.lhs.parent.roles = args.rhs.parent.roles) =>
        /\ ret.value[1].cr.labels[RevisionKey] = ret.value[2].cr.labels[RevisionKey]
        /\ ret.value[1].cr.labels[RevisionKey] = hashRevision(ret.value[1].cr.raw)
        /\ \A i \in 1..2 :
                ret.value[i].cr.name
                    = Stem(ret.value[i].cr) \o FormatInt64(Int64(ret.value[i].cr.revision))
        /\ Stem(ret.value[1].cr) = Stem(ret.value[2].cr)
        /\ Len(ret.value) = 3 => ret.value[3]

\* the same two roles, once with a group policy over no history and once without
\* over the orphans: numbers 1 and 5, two names, one hash, equal records
C30_Witness ==
    /\ Twinned /\ Len(ret.value) = 3
    /\ args.lhs.parent.roles = args.rhs.parent.roles
    /\ Len(args.lhs.parent.roles) = 2
    /\ args.lhs.parent.podGroupPolicy # Nil /\ args.rhs.parent.podGroupPolicy = Nil
    /\ args.lhs.history = {} /\ args.rhs.history = Orphans
    /\ ret.value[1].cr.revision = 1 /\ ret.value[2].cr.revision = 5
    /\ ret.value[1].cr.name # ret.value[2].cr.name
    /\ ret.value[1].cr.labels[RevisionKey] = ret.value[2].cr.labels[RevisionKey]
    /\ ret.value[3]

====
